---------------------------- MODULE Spec2Model ----------------------------
(***************************************************************************)
(* State-machine model of the candle event pipeline and the order/position *)
(* accounting engine of ninjabot: the position ledger and per-pair summary *)
(* of the order controller, the candle priority queue, the backtest drain  *)
(* and the paper wallet (simulated matching engine).                       *)
(*                                                                         *)
(* float64 values are modelled as exact rationals [n, d] in lowest terms.  *)
(***************************************************************************)
EXTENDS Integers, Sequences, FiniteSets, TLC

(***************************************************************************)
(* Bounds of the model.                                                    *)
(***************************************************************************)
\* number of orders handed to Controller.processTrade in one run
MaxFills == 3
\* number of items pushed to the priority queue in one run
MaxPush == 4
\* number of broker calls (order creations and cancels) on the paper wallet
MaxCalls == 2
\* number of candles handed to the paper wallet
MaxCandles == 2
MaxFeedLen == 3
MaxFaults == 1

(***************************************************************************)
(* Exact rational arithmetic standing for float64.                         *)
(***************************************************************************)
RECURSIVE GCD(_, _)
GCD(a, b) == IF b = 0 THEN a ELSE GCD(b, a % b)

IAbs(x) == IF x < 0 THEN -x ELSE x

\* the rational n/d (d # 0) in lowest terms with a positive denominator
Rat(n, d) ==
    LET s == IF d < 0 THEN -1 ELSE 1
        g == GCD(IAbs(n), IAbs(d))
    IN  [n |-> (s * n) \div g, d |-> (s * d) \div g]

RInt(i) == [n |-> i, d |-> 1]
RZero == RInt(0)
RAdd(a, b) == Rat(a.n * b.d + b.n * a.d, a.d * b.d)
RSub(a, b) == Rat(a.n * b.d - b.n * a.d, a.d * b.d)
RMul(a, b) == Rat(a.n * b.n, a.d * b.d)
RDiv(a, b) == Rat(a.n * b.d, a.d * b.n)
RLt(a, b) == a.n * b.d < b.n * a.d
RLe(a, b) == a.n * b.d <= b.n * a.d
RMin(a, b) == IF RLt(b, a) THEN b ELSE a
RMax(a, b) == IF RLt(a, b) THEN b ELSE a
RAbs(a) == [n |-> IAbs(a.n), d |-> a.d]
RNeg(a) == [n |-> -a.n, d |-> a.d]

RECURSIVE RSum(_)
RSum(s) == IF s = <<>> THEN RZero ELSE RAdd(Head(s), RSum(Tail(s)))

(***************************************************************************)
(* model/order.go: sides, order types, order statuses.                     *)
(***************************************************************************)
SideTypeBuy == "BUY"
SideTypeSell == "SELL"
SideType == {SideTypeBuy, SideTypeSell}

OrderTypeLimit == "LIMIT"
OrderTypeMarket == "MARKET"
OrderTypeLimitMaker == "LIMIT_MAKER"
OrderTypeStopLoss == "STOP_LOSS"
OrderTypeStopLossLimit == "STOP_LOSS_LIMIT"
OrderTypeTakeProfit == "TAKE_PROFIT"
OrderTypeTakeProfitLimit == "TAKE_PROFIT_LIMIT"

OrderStatusTypeNew == "NEW"
OrderStatusTypePartiallyFilled == "PARTIALLY_FILLED"
OrderStatusTypeFilled == "FILLED"
OrderStatusTypeCanceled == "CANCELED"
OrderStatusTypePendingCancel == "PENDING_CANCEL"
OrderStatusTypeRejected == "REJECTED"
OrderStatusTypeExpired == "EXPIRED"

\* an absent map entry or a nil struct pointer
Nil == [nil |-> TRUE]

\* a nil *float64 / *int64 (Order.Stop, Order.GroupID)
NilPtr == -1

\* model.Order; ID is the storage id, ExchangeID the broker's id
Order(id, exchangeID, pair, side, type, status, price, quantity, at, stop, groupID) ==
    [ID |-> id, ExchangeID |-> exchangeID, Pair |-> pair, Side |-> side,
     Type |-> type, Status |-> status, Price |-> price, Quantity |-> quantity,
     CreatedAt |-> at, UpdatedAt |-> at, Stop |-> stop, GroupID |-> groupID]

Pairs == {"BTCUSDT", "ETHUSDT"}

VARIABLES
    \* ---- order controller (ledger) ----
    position,   \* Controller.position : pair -> Position, Nil when absent
    Results,    \* Controller.Results  : pair -> summary, Nil when absent
    emitted,    \* history: the Results returned by Position.Update, per pair
    fills,      \* history: the filled orders handed to processTrade, in order
    last,       \* history: the last processTrade call (order, position before, result)
    \* ---- priority queue ----
    data,       \* PriorityQueue.data (data[i + 1] is the code's data[i])
    length,     \* PriorityQueue.length
    pushed,     \* history: the items pushed, in order
    popped,     \* history: the items Pop returned (Nil for the empty sentinel)
    sincePush,  \* history: the items popped since the last push
    lastPop,    \* history: the last Pop call (data before, item returned)
    \* ---- paper wallet ----
    orders,         \* PaperWallet.orders
    assets,         \* PaperWallet.assets : asset -> [Free, Lock], Nil when absent
    avgShortPrice,  \* PaperWallet.avgShortPrice (0 when absent)
    avgLongPrice,   \* PaperWallet.avgLongPrice (0 when absent)
    volume,         \* PaperWallet.volume (0 when absent)
    lastCandle,     \* PaperWallet.lastCandle (the zero Candle when absent)
    fistCandle,     \* PaperWallet.fistCandle, Nil when absent
    counter,        \* PaperWallet.counter
    assetValues,    \* PaperWallet.assetValues
    equityValues,   \* PaperWallet.equityValues
    execs,          \* history: the fills of OnCandle (order, price, volume and balance change)
    calls,          \* history: number of broker calls made
    candles,        \* history: the candles handed to OnCandle
    lastStep,       \* history: the last wallet operation and PaperWallet.orders before it
    \* ---- controller storage and bot ----
    storage,        \* Controller.storage: the persisted orders, storage[id] has ID id
    feeds,          \* the candles each pair's data feed has still to deliver
    processed,      \* history: the candles handed to the wallet and the strategy
    faults,         \* number of Broker and Storage failures so far
    ctl,            \* history: the last controller call (what it returned,
                    \* notified, published and failed on)
    \* ---- lifecycle of the bot's goroutines ----
    controllerStatus,  \* Controller.status
    loop,           \* the reconciliation goroutine of Controller.Start
    stopping,       \* the Controller.Stop call in progress, if any
    passes,         \* history: the updateOrders passes run, by who ran them
    lastStop,       \* history: the last Stop call that found the controller running
    ctxDone,        \* whether the context handed to Run is cancelled
    run,            \* where NinjaBot.Run stands
    backtest,       \* NinjaBot.backtest
    dispatch,       \* the goroutine of DataFeedSubscription.Start, per feed
    feedData,       \* DataFeed.Data per feed: open or closed
    delivered,      \* history: number of candles each feed has dispatched
    \* ---- priority queue under concurrent callers ----
    notifyCallbacks,  \* PriorityQueue.notifyCallbacks: the channel of each callback
    registering,    \* the PopLock call of each caller
    notifying,      \* the notify goroutines Push started that have not run, per channel
    observed,       \* history: what the last Peek or Len returned
    sending,        \* the notify goroutines that have popped and wait to send
    received,       \* history: what each channel's consumer has received, in order
    \* ---- strategy controller, data feed subscription, CSV feed ----
    bots,           \* per mode (live, backtest): the strategy controllers' dataframes,
                    \* Controller.lastPrice and the consumers the last candle reached
    datafeed,       \* DataFeedSubscription: subscriptions, feeds, dispatch goroutines, Start
    csv,            \* CSVFeed.CandlePairTimeFrame of one pair, and its subscription
    orderfeed       \* order.Feed of one pair, Controller.mtx, and the goroutines that publish

ledgerVars == <<position, Results, emitted, fills, last>>
queueVars == <<data, length, pushed, popped, sincePush, lastPop>>
walletVars == <<orders, assets, avgShortPrice, avgLongPrice, volume, lastCandle,
                fistCandle, counter, assetValues, equityValues, execs, calls,
                candles, lastStep>>
botVars == <<storage, feeds, processed, faults, ctl>>
lifeVars == <<controllerStatus, loop, stopping, passes, lastStop, ctxDone, run,
              backtest, dispatch, feedData, delivered>>
streamVars == <<notifyCallbacks, registering, notifying, observed, sending, received>>
compVars == <<bots, datafeed, csv, orderfeed>>

vars == <<position, Results, emitted, fills, last,
          data, length, pushed, popped, sincePush, lastPop,
          orders, assets, avgShortPrice, avgLongPrice, volume, lastCandle,
          fistCandle, counter, assetValues, equityValues, execs, calls,
          candles, lastStep, storage, feeds, processed, faults, ctl,
          controllerStatus, loop, stopping, passes, lastStop, ctxDone, run,
          backtest, dispatch, feedData, delivered,
          notifyCallbacks, registering, notifying, observed, sending, received,
          bots, datafeed, csv, orderfeed>>

(***************************************************************************)
(* Order controller: summary, Position, updatePosition, processTrade.      *)
(***************************************************************************)
\* &summary{Pair: pair}
NewSummary(pair) ==
    [Pair |-> pair,
     WinLong |-> <<>>, WinLongPercent |-> <<>>,
     WinShort |-> <<>>, WinShortPercent |-> <<>>,
     LoseLong |-> <<>>, LoseLongPercent |-> <<>>,
     LoseShort |-> <<>>, LoseShortPercent |-> <<>>,
     Volume |-> 0]

Win(s) == s.WinLong \o s.WinShort
Lose(s) == s.LoseLong \o s.LoseShort
WinPercent(s) == s.WinLongPercent \o s.WinShortPercent
LosePercent(s) == s.LoseLongPercent \o s.LoseShortPercent

\* summary.Profit: the sum over append(s.Win(), s.Lose()...)
Profit(s) == RSum(Win(s) \o Lose(s))

\* the price Position.Update works with: the stop price for stop orders
UpdatePrice(o) ==
    IF o.Type = OrderTypeStopLoss \/ o.Type = OrderTypeStopLossLimit
    THEN o.Stop ELSE o.Price

\* same-side branch of Position.Update with the plain mean of the two prices
UpdateSameSide_PlainMean(p, o) ==
    [p EXCEPT
       !.AvgPrice = RDiv(RAdd(p.AvgPrice, RInt(UpdatePrice(o))), RInt(2)),
       !.Quantity = p.Quantity + o.Quantity]

\* same-side branch of Position.Update
UpdateSameSide(p, o) ==
    LET price == RInt(UpdatePrice(o))
    IN  [p EXCEPT
          !.AvgPrice = RDiv(RAdd(RMul(p.AvgPrice, RInt(p.Quantity)),
                                 RMul(price, RInt(o.Quantity))),
                            RInt(p.Quantity + o.Quantity)),
          !.Quantity = p.Quantity + o.Quantity]

\* a flip that forgets `p.CreatedAt = order.CreatedAt`
UpdateOppositeSide_KeepOpenedAt(p, o) ==
    IF p.Quantity = o.Quantity THEN p
    ELSE IF p.Quantity > o.Quantity
         THEN [p EXCEPT !.Quantity = p.Quantity - o.Quantity]
         ELSE [Side |-> o.Side, AvgPrice |-> RInt(UpdatePrice(o)),
               Quantity |-> o.Quantity - p.Quantity, CreatedAt |-> p.CreatedAt]

\* opposite-side branch of Position.Update: the position as the if/else-if/else
\* chain leaves it, before the profit is computed
UpdateOppositeSide(p, o) ==
    IF p.Quantity = o.Quantity THEN p
    ELSE IF p.Quantity > o.Quantity
         THEN [p EXCEPT !.Quantity = p.Quantity - o.Quantity]
         ELSE [Side |-> o.Side, AvgPrice |-> RInt(UpdatePrice(o)),
               Quantity |-> o.Quantity - p.Quantity, CreatedAt |-> o.CreatedAt]

\* the Result built by Position.Update from the position q it has just
\* rewritten (q = UpdateOppositeSide(p, o)): quantity, AvgPrice, Side and
\* CreatedAt are read after the assignments above
UpdateResult(q, o) ==
    LET price == RInt(UpdatePrice(o))
        quantity == IF q.Quantity < o.Quantity THEN q.Quantity ELSE o.Quantity
    IN  [Pair |-> o.Pair,
         CreatedAt |-> o.CreatedAt,
         Duration |-> o.CreatedAt - q.CreatedAt,
         ProfitPercent |-> RDiv(RSub(price, q.AvgPrice), q.AvgPrice),
         ProfitValue |-> RMul(RSub(price, q.AvgPrice), RInt(quantity)),
         Side |-> q.Side]

\* Position.Update that builds a Result on the same-side branch too
Update_ResultOnEveryFill(p, o) ==
    LET q == IF p.Side = o.Side THEN UpdateSameSide(p, o) ELSE UpdateOppositeSide(p, o)
    IN  [pos |-> q, result |-> UpdateResult(q, o),
         finished |-> (p.Side # o.Side /\ p.Quantity = o.Quantity)]

\* Position.Update: [pos |-> the position afterwards, result, finished]
Update(p, o) ==
    IF p.Side = o.Side
    THEN [pos |-> UpdateSameSide(p, o), result |-> Nil, finished |-> FALSE]
    ELSE LET q == UpdateOppositeSide(p, o)
         IN  [pos |-> q, result |-> UpdateResult(q, o),
              finished |-> (p.Quantity = o.Quantity)]

\* Controller.updatePosition without the delete of a closed position
updatePosition_NeverDeleted(pos, o) ==
    IF pos = Nil
    THEN [pos |-> [Side |-> o.Side, AvgPrice |-> RInt(o.Price),
                   Quantity |-> o.Quantity, CreatedAt |-> o.CreatedAt],
          result |-> Nil]
    ELSE LET u == Update(pos, o)
         IN  [pos |-> u.pos, result |-> u.result]

\* Controller.updatePosition: the new value of c.position[o.Pair] (Nil = deleted)
\* and the Result obtained; c.Results is only read (for the notification text)
updatePosition(pos, o) ==
    IF pos = Nil
    THEN [pos |-> [Side |-> o.Side, AvgPrice |-> RInt(o.Price),
                   Quantity |-> o.Quantity, CreatedAt |-> o.CreatedAt],
          result |-> Nil]
    ELSE LET u == Update(pos, o)
         IN  [pos |-> IF u.finished THEN Nil ELSE u.pos, result |-> u.result]

\* the controller's ledger as one value, and its assignment
Ledger ==
    [position |-> position, Results |-> Results, emitted |-> emitted,
     fills |-> fills, last |-> last]

SetLedger(L) ==
    /\ position' = L.position
    /\ Results' = L.Results
    /\ emitted' = L.emitted
    /\ fills' = L.fills
    /\ last' = L.last

\* Controller.processTrade
processTrade(L, o) ==
    IF o.Status # OrderStatusTypeFilled
    THEN [L EXCEPT !.last = [order |-> o, before |-> L.position[o.Pair],
                             result |-> Nil, applied |-> FALSE]]
    ELSE LET s == IF L.Results[o.Pair] = Nil THEN NewSummary(o.Pair)
                  ELSE L.Results[o.Pair]
             u == updatePosition(L.position[o.Pair], o)
         IN  [L EXCEPT
                !.Results[o.Pair] = [s EXCEPT !.Volume = s.Volume + o.Price * o.Quantity],
                !.position[o.Pair] = u.pos,
                !.emitted[o.Pair] = IF u.result = Nil THEN @ ELSE Append(@, u.result),
                !.fills = Append(@, o),
                !.last = [order |-> o, before |-> L.position[o.Pair],
                          result |-> u.result, applied |-> TRUE]]

(***************************************************************************)
(* model.Candle and its ordering; model.PriorityQueue.                     *)
(***************************************************************************)
Candle(pair, time, updatedAt, open, close, low, high, complete) ==
    [Pair |-> pair, Time |-> time, UpdatedAt |-> updatedAt, Open |-> open,
     Close |-> close, Low |-> low, High |-> high, Complete |-> complete]

\* Go's string order on the pair names
PairLess(a, b) == a = "BTCUSDT" /\ b = "ETHUSDT"

\* Candle.Less: (time, update time, pair)
Less(c, j) ==
    IF j.Time - c.Time < 0 THEN FALSE
    ELSE IF j.Time - c.Time > 0 THEN TRUE
    ELSE IF j.UpdatedAt - c.UpdatedAt < 0 THEN FALSE
    ELSE IF j.UpdatedAt - c.UpdatedAt > 0 THEN TRUE
    ELSE PairLess(c.Pair, j.Pair)

\* the loop of PriorityQueue.down, from position pos (0-based) with the item
\* that was at the start position
RECURSIVE downLoop(_, _, _, _)
downLoop(d, len, pos, item) ==
    IF pos < len \div 2
    THEN LET left == 2 * pos + 1
             right == left + 1
             best == IF right < len /\ Less(d[right + 1], d[left + 1])
                     THEN right ELSE left
         IN  IF ~Less(d[best + 1], item)
             THEN [d EXCEPT ![pos + 1] = item]
             ELSE downLoop([d EXCEPT ![pos + 1] = d[best + 1]], len, best, item)
    ELSE [d EXCEPT ![pos + 1] = item]

\* PriorityQueue.down
down(d, len, pos) == downLoop(d, len, pos, d[pos + 1])

RECURSIVE upLoop(_, _, _)
upLoop(d, pos, item) ==
    IF pos > 0
    THEN LET parent == (pos - 1) \div 2
             current == d[parent + 1]
         IN  IF ~Less(item, current)
             THEN [d EXCEPT ![pos + 1] = item]
             ELSE upLoop([d EXCEPT ![pos + 1] = current], parent, item)
    ELSE [d EXCEPT ![pos + 1] = item]

\* a push that appends without sifting up
up_NoSift(d, pos) == d

\* PriorityQueue.up
up(d, pos) == upLoop(d, pos, d[pos + 1])

\* PriorityQueue.Push: the data and length afterwards
Push(d, len, item) ==
    [data |-> up(Append(d, item), len), length |-> len + 1]

\* PriorityQueue.Pop: the item returned (Nil when empty), data and length
Pop(d, len) ==
    IF len = 0
    THEN [item |-> Nil, data |-> d, length |-> len]
    ELSE LET n == len - 1
             moved == IF n > 0 THEN down([d EXCEPT ![1] = d[n - 1 + 1]], n, 0)
                      ELSE d
         IN  [item |-> d[1], data |-> SubSeq(moved, 1, n), length |-> n]

\* PriorityQueue.Peek
Peek(d, len) == IF len = 0 THEN Nil ELSE d[1]

(***************************************************************************)
(* exchange.PaperWallet: the simulated matching engine.                    *)
(***************************************************************************)
Assets == {"USDT", "BTC", "ETH"}
baseCoin == "USDT"

\* SplitAssetQuote on the pairs of the model
SplitAssetQuote(pair) ==
    IF pair = "BTCUSDT" THEN [asset |-> "BTC", quote |-> "USDT"]
    ELSE [asset |-> "ETH", quote |-> "USDT"]

\* the zero model.Candle a map lookup yields for an absent pair
ZeroCandle == Candle("", 0, 0, 0, 0, 0, 0, FALSE)

\* &assetInfo{}
ZeroAsset == [Free |-> RZero, Lock |-> RZero]

\* the wallet as one value, so that the steps of a method can be chained
PW ==
    [orders |-> orders, assets |-> assets, avgShortPrice |-> avgShortPrice,
     avgLongPrice |-> avgLongPrice, volume |-> volume, lastCandle |-> lastCandle,
     fistCandle |-> fistCandle, counter |-> counter, assetValues |-> assetValues,
     equityValues |-> equityValues, execs |-> execs]

SetPW(w) ==
    /\ orders' = w.orders
    /\ assets' = w.assets
    /\ avgShortPrice' = w.avgShortPrice
    /\ avgLongPrice' = w.avgLongPrice
    /\ volume' = w.volume
    /\ lastCandle' = w.lastCandle
    /\ fistCandle' = w.fistCandle
    /\ counter' = w.counter
    /\ assetValues' = w.assetValues
    /\ equityValues' = w.equityValues
    /\ execs' = w.execs

\* `if _, ok := p.assets[a]; !ok { p.assets[a] = &assetInfo{} }`
EnsureAsset(w, a) ==
    IF w.assets[a] = Nil THEN [w EXCEPT !.assets[a] = ZeroAsset] ELSE w

\* PaperWallet.updateAveragePrice
updateAveragePrice(w, side, pair, amount, value) ==
    LET asset == SplitAssetQuote(pair).asset
        actualQty == IF w.assets[asset] # Nil THEN w.assets[asset].Free ELSE RZero
    IN  IF actualQty = RZero
        THEN IF side = SideTypeBuy
             THEN [w EXCEPT !.avgLongPrice[pair] = value]
             ELSE [w EXCEPT !.avgShortPrice[pair] = value]
        ELSE IF RLt(RZero, actualQty) /\ side = SideTypeBuy
        THEN [w EXCEPT !.avgLongPrice[pair] =
                 RDiv(RAdd(RMul(w.avgLongPrice[pair], actualQty), RMul(amount, value)),
                      RAdd(actualQty, amount))]
        ELSE IF RLt(RZero, actualQty) /\ side = SideTypeSell
        THEN IF RLe(amount, actualQty) THEN w
             ELSE [w EXCEPT !.avgShortPrice[pair] = value]
        ELSE IF RLt(actualQty, RZero) /\ side = SideTypeSell
        THEN [w EXCEPT !.avgShortPrice[pair] =
                 RDiv(RAdd(RMul(w.avgShortPrice[pair], RNeg(actualQty)),
                           RMul(amount, value)),
                      RAdd(RNeg(actualQty), amount))]
        ELSE IF RLe(amount, RNeg(actualQty)) THEN w
             ELSE [w EXCEPT !.avgLongPrice[pair] = value]

\* exchange.go: the errors of order creation
ErrInvalidQuantity == "invalid quantity"
ErrInsufficientFunds == "insufficient funds or locked"
OrderError(err, pair, quantity) == [Err |-> err, Pair |-> pair, Quantity |-> quantity]

\* the sell branch with the reserved base units not added to the locked balance
validateFundsSell_BaseNotLocked(w0, pair, amount, value, fill) ==
    LET asset == SplitAssetQuote(pair).asset
        quote == SplitAssetQuote(pair).quote
        free == w0.assets[asset].Free
        funds == IF RLt(RZero, free)
                 THEN RAdd(w0.assets[quote].Free, RMul(free, value))
                 ELSE w0.assets[quote].Free
        lockedAsset == RMin(RMax(free, RZero), amount)
        lockedQuote == RMul(RSub(amount, lockedAsset), value)
        w1 == [w0 EXCEPT !.assets[asset].Free = RSub(@, lockedAsset)]
        w2 == [w1 EXCEPT !.assets[quote].Free = RSub(@, lockedQuote)]
        w3 == updateAveragePrice(w2, SideTypeSell, pair, amount, value)
    IN  IF RLt(funds, RMul(amount, value))
        THEN [err |-> TRUE, error |-> OrderError(ErrInsufficientFunds, pair, amount),
              w |-> w0]
        ELSE IF fill
        THEN [err |-> FALSE,
              w |-> IF RLt(RZero, lockedQuote)
                    THEN [w3 EXCEPT !.assets[asset].Free = RSub(@, amount)]
                    ELSE [w3 EXCEPT !.assets[quote].Free = RAdd(@, RMul(amount, value))]]
        ELSE [err |-> FALSE,
              w |-> [w2 EXCEPT !.assets[quote].Lock = RAdd(@, lockedQuote)]]

\* the sell branch of PaperWallet.validateFunds: [err, error, w]
validateFundsSell(w0, pair, amount, value, fill) ==
    LET asset == SplitAssetQuote(pair).asset
        quote == SplitAssetQuote(pair).quote
        free == w0.assets[asset].Free
        funds == IF RLt(RZero, free)
                 THEN RAdd(w0.assets[quote].Free, RMul(free, value))
                 ELSE w0.assets[quote].Free
        lockedAsset == RMin(RMax(free, RZero), amount)
        lockedQuote == RMul(RSub(amount, lockedAsset), value)
        w1 == [w0 EXCEPT !.assets[asset].Free = RSub(@, lockedAsset)]
        w2 == [w1 EXCEPT !.assets[quote].Free = RSub(@, lockedQuote)]
        w3 == updateAveragePrice(w2, SideTypeSell, pair, amount, value)
    IN  IF RLt(funds, RMul(amount, value))
        THEN [err |-> TRUE, error |-> OrderError(ErrInsufficientFunds, pair, amount),
              w |-> w0]
        ELSE IF fill
        THEN [err |-> FALSE,
              w |-> IF RLt(RZero, lockedQuote)
                    THEN [w3 EXCEPT !.assets[asset].Free = RSub(@, amount)]
                    ELSE [w3 EXCEPT !.assets[quote].Free = RAdd(@, RMul(amount, value))]]
        ELSE [err |-> FALSE,
              w |-> [w2 EXCEPT !.assets[asset].Lock = RAdd(@, lockedAsset),
                               !.assets[quote].Lock = RAdd(@, lockedQuote)]]

\* the buy branch with the quote taken from the free balance before the check
validateFundsBuy_DebitBeforeCheck(w0, pair, amount, value, fill) ==
    LET asset == SplitAssetQuote(pair).asset
        quote == SplitAssetQuote(pair).quote
        free == w0.assets[asset].Free
        v == RAbs(free)
        liquidShortValue ==
            IF RLt(free, RZero)
            THEN RSub(RMul(RMul(RInt(2), v), w0.avgShortPrice[pair]), RMul(v, value))
            ELSE RZero
        funds == RAdd(w0.assets[quote].Free, liquidShortValue)
        amountToBuy == IF RLt(free, RZero) THEN RAdd(amount, free) ELSE amount
        lockedAsset == RMin(RNeg(RMin(free, RZero)), amount)
        lockedQuote == RSub(RMul(RSub(amount, lockedAsset), value), liquidShortValue)
        w1 == [w0 EXCEPT !.assets[asset].Free = RAdd(@, lockedAsset)]
        w2 == [w1 EXCEPT !.assets[quote].Free = RSub(@, lockedQuote)]
        w3 == updateAveragePrice(w2, SideTypeBuy, pair, amount, value)
    IN  IF RLt(funds, RMul(amountToBuy, value))
        THEN [err |-> TRUE, error |-> OrderError(ErrInsufficientFunds, pair, amount),
              w |-> w2]
        ELSE IF fill
        THEN [err |-> FALSE,
              w |-> [w3 EXCEPT !.assets[asset].Free =
                                  RAdd(@, RSub(amount, lockedAsset))]]
        ELSE [err |-> FALSE,
              w |-> [w2 EXCEPT !.assets[asset].Lock = RAdd(@, lockedAsset),
                               !.assets[quote].Lock = RAdd(@, lockedQuote)]]

\* the buy branch of PaperWallet.validateFunds: [err, w]
validateFundsBuy(w0, pair, amount, value, fill) ==
    LET asset == SplitAssetQuote(pair).asset
        quote == SplitAssetQuote(pair).quote
        free == w0.assets[asset].Free
        v == RAbs(free)
        liquidShortValue ==
            IF RLt(free, RZero)
            THEN RSub(RMul(RMul(RInt(2), v), w0.avgShortPrice[pair]), RMul(v, value))
            ELSE RZero
        funds == RAdd(w0.assets[quote].Free, liquidShortValue)
        amountToBuy == IF RLt(free, RZero) THEN RAdd(amount, free) ELSE amount
        lockedAsset == RMin(RNeg(RMin(free, RZero)), amount)
        lockedQuote == RSub(RMul(RSub(amount, lockedAsset), value), liquidShortValue)
        w1 == [w0 EXCEPT !.assets[asset].Free = RAdd(@, lockedAsset)]
        w2 == [w1 EXCEPT !.assets[quote].Free = RSub(@, lockedQuote)]
        w3 == updateAveragePrice(w2, SideTypeBuy, pair, amount, value)
    IN  IF RLt(funds, RMul(amountToBuy, value))
        THEN [err |-> TRUE, error |-> OrderError(ErrInsufficientFunds, pair, amount),
              w |-> w0]
        ELSE IF fill
        THEN [err |-> FALSE,
              w |-> [w3 EXCEPT !.assets[asset].Free =
                                  RAdd(@, RSub(amount, lockedAsset))]]
        ELSE [err |-> FALSE,
              w |-> [w2 EXCEPT !.assets[asset].Lock = RAdd(@, lockedAsset),
                               !.assets[quote].Lock = RAdd(@, lockedQuote)]]

\* PaperWallet.validateFunds: [err |-> insufficient funds, w |-> the wallet afterwards]
validateFunds(w, side, pair, amount, value, fill) ==
    LET sq == SplitAssetQuote(pair)
        w0 == EnsureAsset(EnsureAsset(w, sq.asset), sq.quote)
    IN  IF side = SideTypeSell
        THEN validateFundsSell(w0, pair, RInt(amount), RInt(value), fill)
        ELSE validateFundsBuy(w0, pair, RInt(amount), RInt(value), fill)

\* the sibling PaperWallet.OnCandle cancels when order i of a group fills: the
\* first order of the same group with another exchange id (0 when none)
RECURSIVE groupSibling(_, _, _)
groupSibling(os, order, j) ==
    IF j > Len(os) THEN 0
    ELSE IF os[j].GroupID # NilPtr /\ os[j].GroupID = order.GroupID
            /\ os[j].ExchangeID # order.ExchangeID
         THEN j
         ELSE groupSibling(os, order, j + 1)

\* history entry of one fill inside OnCandle: the price used, and what the
\* fill changed in the traded volume and in the quote asset's free balance
Exec(w, w2, order, candle, price) ==
    LET quote == SplitAssetQuote(order.Pair).quote
    IN  [ExchangeID |-> order.ExchangeID, Time |-> candle.Time, Price |-> price,
         Volume |-> RSub(w2.volume[order.Pair], w.volume[order.Pair]),
         QuoteFree |-> RSub(w2.assets[quote].Free, w.assets[quote].Free)]

\* PaperWallet.OnCandle, buy branch of the loop body for order i
fillBuy(w, candle, i) ==
    LET order == w.orders[i]
        asset == SplitAssetQuote(order.Pair).asset
        quote == SplitAssetQuote(order.Pair).quote
        cost == RInt(order.Price * order.Quantity)
        w1 == EnsureAsset(w, asset)
        w2 == [w1 EXCEPT !.volume[candle.Pair] = RAdd(@, cost),
                         !.orders[i].UpdatedAt = candle.Time,
                         !.orders[i].Status = OrderStatusTypeFilled]
        w3 == updateAveragePrice(w2, order.Side, order.Pair,
                                 RInt(order.Quantity), RInt(order.Price))
        w4 == [w3 EXCEPT !.assets[asset].Free = RAdd(@, RInt(order.Quantity)),
                         !.assets[quote].Lock = RSub(@, cost)]
    IN  [w4 EXCEPT !.execs = Append(@, Exec(w, w4, order, candle, order.Price))]

\* sellOrderPrice with a stop order executed at its limit price
sellOrderPrice_StopAtLimit(order, candle) ==
    IF order.Type \in {OrderTypeLimit, OrderTypeLimitMaker, OrderTypeTakeProfit,
                       OrderTypeTakeProfitLimit}
       /\ candle.High >= order.Price
    THEN order.Price
    ELSE IF order.Type \in {OrderTypeStopLossLimit, OrderTypeStopLoss}
            /\ candle.Low <= order.Stop
         THEN order.Price
         ELSE NilPtr

\* the price a resting sell order fills at on this candle, NilPtr when it
\* does not fill
sellOrderPrice(order, candle) ==
    IF order.Type \in {OrderTypeLimit, OrderTypeLimitMaker, OrderTypeTakeProfit,
                       OrderTypeTakeProfitLimit}
       /\ candle.High >= order.Price
    THEN order.Price
    ELSE IF order.Type \in {OrderTypeStopLossLimit, OrderTypeStopLoss}
            /\ candle.Low <= order.Stop
         THEN order.Stop
         ELSE NilPtr

\* PaperWallet.OnCandle, sell branch of the loop body for order i
fillSell(w, candle, i) ==
    LET order == w.orders[i]
        asset == SplitAssetQuote(order.Pair).asset
        quote == SplitAssetQuote(order.Pair).quote
        orderPrice == sellOrderPrice(order, candle)
        j == IF order.GroupID # NilPtr THEN groupSibling(w.orders, order, 1) ELSE 0
        w1 == IF j = 0 THEN w
              ELSE [w EXCEPT !.orders[j].Status = OrderStatusTypeCanceled,
                             !.orders[j].UpdatedAt = candle.Time]
        w2 == EnsureAsset(w1, quote)
        orderVolume == RInt(order.Quantity * orderPrice)
        w3 == [w2 EXCEPT !.volume[candle.Pair] = RAdd(@, orderVolume),
                         !.orders[i].UpdatedAt = candle.Time,
                         !.orders[i].Status = OrderStatusTypeFilled]
        w4 == updateAveragePrice(w3, order.Side, order.Pair,
                                 RInt(order.Quantity), RInt(orderPrice))
        w5 == [w4 EXCEPT !.assets[asset].Lock = RSub(@, RInt(order.Quantity)),
                         !.assets[quote].Free = RAdd(@, orderVolume)]
    IN  IF orderPrice = NilPtr THEN w
        ELSE [w5 EXCEPT !.execs = Append(@, Exec(w, w5, order, candle, orderPrice))]

\* the loop body with a buy order filled whatever the candle's close is
matchOrder_BuyAtAnyClose(w, candle, i) ==
    LET order == w.orders[i]
    IN  IF order.Pair # candle.Pair \/ order.Status # OrderStatusTypeNew THEN w
        ELSE IF order.Side = SideTypeBuy
             THEN fillBuy(w, candle, i)
             ELSE fillSell(w, candle, i)

\* PaperWallet.OnCandle, the body of the loop over p.orders for index i
matchOrder(w, candle, i) ==
    LET order == w.orders[i]
    IN  IF order.Pair # candle.Pair \/ order.Status # OrderStatusTypeNew THEN w
        ELSE IF order.Side = SideTypeBuy
             THEN IF order.Price >= candle.Close THEN fillBuy(w, candle, i) ELSE w
             ELSE fillSell(w, candle, i)

RECURSIVE matchOrders(_, _, _)
matchOrders(w, candle, i) ==
    IF i > Len(w.orders) THEN w
    ELSE matchOrders(matchOrder(w, candle, i), candle, i + 1)

\* strings.ToUpper(asset + p.baseCoin)
AssetPair(asset) ==
    IF asset = "BTC" THEN "BTCUSDT" ELSE IF asset = "ETH" THEN "ETHUSDT" ELSE "USDTUSDT"

LastClose(w, pair) == IF pair \in Pairs THEN w.lastCandle[pair].Close ELSE 0
AvgShort(w, pair) == IF pair \in Pairs THEN w.avgShortPrice[pair] ELSE RZero

\* what one asset adds to `total` in the equity loop of OnCandle
EquityOf(w, asset) ==
    LET amount == RAdd(w.assets[asset].Free, w.assets[asset].Lock)
        pair == AssetPair(asset)
        v == RAbs(amount)
    IN  IF RLt(amount, RZero)
        THEN RSub(RMul(RMul(RInt(2), v), AvgShort(w, pair)),
                  RMul(v, RInt(LastClose(w, pair))))
        ELSE RMul(amount, RInt(LastClose(w, pair)))

RECURSIVE SumEquity(_, _)
SumEquity(w, as) ==
    IF as = {} THEN RZero
    ELSE LET a == CHOOSE x \in as : TRUE
         IN  RAdd(EquityOf(w, a), SumEquity(w, as \ {a}))

\* PaperWallet.OnCandle, the block run for a complete candle
recordEquity(w, candle) ==
    LET held == {a \in Assets : w.assets[a] # Nil}
        total == SumEquity(w, held)
        base == w.assets[baseCoin]
    IN  [w EXCEPT
          !.assetValues = [a \in Assets |->
              IF a \in held
              THEN Append(w.assetValues[a],
                     [Time |-> candle.Time,
                      Value |-> RMul(RAdd(w.assets[a].Free, w.assets[a].Lock),
                                     RInt(LastClose(w, AssetPair(a))))])
              ELSE w.assetValues[a]],
          !.equityValues = Append(@,
              [Time |-> candle.Time,
               Value |-> RAdd(total, RAdd(base.Lock, base.Free))])]

\* PaperWallet.OnCandle
OnCandle(w, candle) ==
    LET w1 == [w EXCEPT !.lastCandle[candle.Pair] = candle,
                        !.fistCandle[candle.Pair] =
                            IF @ = Nil THEN candle ELSE @]
        w2 == matchOrders(w1, candle, 1)
    IN  IF candle.Complete THEN recordEquity(w2, candle) ELSE w2

\* PaperWallet.CreateOrderOCO: [err, w, created]
CreateOrderOCO(w, side, pair, size, price, stop, stopLimit) ==
    LET v == validateFunds(w, side, pair, size, price, FALSE)
        at == v.w.lastCandle[pair].Time
        groupID == v.w.counter + 1
        limitMaker == Order(0, groupID + 1, pair, side, OrderTypeLimitMaker,
                            OrderStatusTypeNew, price, size, at, NilPtr, groupID)
        stopOrder == Order(0, groupID + 2, pair, side, OrderTypeStopLoss,
                           OrderStatusTypeNew, stopLimit, size, at, stop, groupID)
    IN  IF size = 0
        THEN [err |-> TRUE, error |-> [Err |-> ErrInvalidQuantity], w |-> w,
              created |-> <<>>]
        ELSE IF v.err
        THEN [err |-> TRUE, error |-> v.error, w |-> v.w, created |-> <<>>]
        ELSE [err |-> FALSE,
              w |-> [v.w EXCEPT !.counter = groupID + 2,
                                !.orders = @ \o <<limitMaker, stopOrder>>],
              created |-> <<limitMaker, stopOrder>>]

\* PaperWallet.CreateOrderLimit: [err, w, created]
CreateOrderLimit(w, side, pair, size, limit) ==
    LET v == validateFunds(w, side, pair, size, limit, FALSE)
        at == v.w.lastCandle[pair].Time
        order == Order(0, v.w.counter + 1, pair, side, OrderTypeLimit,
                       OrderStatusTypeNew, limit, size, at, NilPtr, NilPtr)
    IN  IF size = 0
        THEN [err |-> TRUE, error |-> [Err |-> ErrInvalidQuantity], w |-> w,
              created |-> <<>>]
        ELSE IF v.err
        THEN [err |-> TRUE, error |-> v.error, w |-> v.w, created |-> <<>>]
        ELSE [err |-> FALSE,
              w |-> [v.w EXCEPT !.counter = @ + 1, !.orders = Append(@, order)],
              created |-> <<order>>]

\* PaperWallet.CreateOrderStop: [err, w, created]
CreateOrderStop(w, pair, size, limit) ==
    LET v == validateFunds(w, SideTypeSell, pair, size, limit, FALSE)
        at == v.w.lastCandle[pair].Time
        order == Order(0, v.w.counter + 1, pair, SideTypeSell, OrderTypeStopLossLimit,
                       OrderStatusTypeNew, limit, size, at, limit, NilPtr)
    IN  IF size = 0
        THEN [err |-> TRUE, error |-> [Err |-> ErrInvalidQuantity], w |-> w,
              created |-> <<>>]
        ELSE IF v.err
        THEN [err |-> TRUE, error |-> v.error, w |-> v.w, created |-> <<>>]
        ELSE [err |-> FALSE,
              w |-> [v.w EXCEPT !.counter = @ + 1, !.orders = Append(@, order)],
              created |-> <<order>>]

\* PaperWallet.createOrderMarket: [err, w, created]
createOrderMarket(w, side, pair, size) ==
    LET close == w.lastCandle[pair].Close
        v == validateFunds(w, side, pair, size, close, TRUE)
        at == v.w.lastCandle[pair].Time
        order == Order(0, v.w.counter + 1, pair, side, OrderTypeMarket,
                       OrderStatusTypeFilled, close, size, at, NilPtr, NilPtr)
    IN  IF size = 0
        THEN [err |-> TRUE, error |-> [Err |-> ErrInvalidQuantity], w |-> w,
              created |-> <<>>]
        ELSE IF v.err
        THEN [err |-> TRUE, error |-> v.error, w |-> v.w, created |-> <<>>]
        ELSE [err |-> FALSE,
              w |-> [v.w EXCEPT !.volume[pair] = RAdd(@, RInt(close * size)),
                                !.counter = @ + 1, !.orders = Append(@, order)],
              created |-> <<order>>]

\* PaperWallet.Cancel
Cancel(w, order) ==
    [w EXCEPT !.orders = [i \in 1..Len(w.orders) |->
        IF w.orders[i].ExchangeID = order.ExchangeID
        THEN [w.orders[i] EXCEPT !.Status = OrderStatusTypeCanceled]
        ELSE w.orders[i]]]

(***************************************************************************)
(* PaperWallet.MaxDrawdown.                                                *)
(***************************************************************************)
\* math.MaxFloat64, kept as a value above every value of the model, and its
\* negative; n/0 compares as an infinity under RLt
MaxFloat64 == [n |-> 1, d |-> 0]
NegMaxFloat64 == [n |-> -1, d |-> 0]

\* the float64 quotient a / b: a quotient of math.MaxFloat64 stays beyond
\* every value of the model, a division by zero is an infinity (0/0, a NaN,
\* is given as 0/0)
FloatDiv(a, b) ==
    IF a.d = 0 \/ b.n = 0
    THEN IF a.n = 0 THEN [n |-> 0, d |-> 0]
         ELSE IF (a.n > 0) = (b.n >= 0) THEN MaxFloat64 ELSE NegMaxFloat64
    ELSE RDiv(a, b)

\* the state of the scan before the loop
drawdownStart(ev) ==
    [localMin |-> MaxFloat64, localMinBase |-> ev[1].Value,
     localMinStart |-> ev[1].Time, localMinEnd |-> ev[1].Time,
     globalMin |-> MaxFloat64, globalMinBase |-> ev[1].Value,
     globalMinStart |-> ev[1].Time, globalMinEnd |-> ev[1].Time]

\* the loop of MaxDrawdown from sample i on (i is the 1-based index of the
\* current sample)
RECURSIVE drawdownLoop(_, _, _)
drawdownLoop(ev, i, s) ==
    IF i > Len(ev) THEN s
    ELSE LET diff == RSub(ev[i].Value, ev[i - 1].Value)
             l == IF RLt(RZero, s.localMin)
                  THEN [s EXCEPT !.localMin = diff,
                                 !.localMinBase = ev[i - 1].Value,
                                 !.localMinStart = ev[i - 1].Time,
                                 !.localMinEnd = ev[i].Time]
                  ELSE [s EXCEPT !.localMin = RAdd(s.localMin, diff),
                                 !.localMinEnd = ev[i].Time]
             g == IF RLt(l.localMin, l.globalMin)
                  THEN [l EXCEPT !.globalMin = l.localMin,
                                 !.globalMinBase = l.localMinBase,
                                 !.globalMinStart = l.localMinStart,
                                 !.globalMinEnd = l.localMinEnd]
                  ELSE l
         IN  drawdownLoop(ev, i + 1, g)

\* PaperWallet.MaxDrawdown over the equity series ev (the zero time is 0)
MaxDrawdown(ev) ==
    IF Len(ev) < 1 THEN [value |-> RZero, start |-> 0, end |-> 0]
    ELSE LET s == drawdownLoop(ev, 2, drawdownStart(ev))
         IN  [value |-> FloatDiv(s.globalMin, s.globalMinBase),
              start |-> s.globalMinStart, end |-> s.globalMinEnd]

(***************************************************************************)
(* Ledger specification: orders reach processTrade one at a time.          *)
(***************************************************************************)
FillPrices == {90, 100}
FillQuantities == {5, 10, 15}

\* the orders the broker reports at time `at`: filled market orders on two
\* pairs, filled stop-loss legs of a sell OCO (Price = stop-limit, Stop = stop)
\* and an order that is not filled yet
ReportedOrders(at) ==
    {Order(0, 0, "BTCUSDT", side, OrderTypeMarket, OrderStatusTypeFilled,
           price, qty, at, NilPtr, NilPtr) :
        side \in SideType, price \in FillPrices, qty \in FillQuantities}
    \cup
    {Order(0, 0, "ETHUSDT", side, OrderTypeMarket, OrderStatusTypeFilled,
           100, 10, at, NilPtr, NilPtr) : side \in SideType}
    \cup
    {Order(0, 0, "BTCUSDT", SideTypeSell, OrderTypeStopLoss, OrderStatusTypeFilled,
           90, qty, at, 100, 1) : qty \in FillQuantities}
    \cup
    {Order(0, 0, "BTCUSDT", SideTypeSell, OrderTypeLimit, OrderStatusTypeNew,
           100, 10, at, NilPtr, NilPtr)}

NoCall == [order |-> Nil, before |-> Nil, result |-> Nil, applied |-> FALSE]

LedgerInit ==
    /\ position = [p \in Pairs |-> Nil]
    /\ Results = [p \in Pairs |-> Nil]
    /\ emitted = [p \in Pairs |-> <<>>]
    /\ fills = <<>>
    /\ last = NoCall

ProcessTrade ==
    /\ Len(fills) < MaxFills
    /\ \E o \in ReportedOrders(Len(fills) + 1) : SetLedger(processTrade(Ledger, o))
    /\ UNCHANGED <<queueVars, walletVars, botVars, lifeVars, streamVars, compVars>>

LedgerNext == ProcessTrade


(***************************************************************************)
(* Queue specification: pushes and pops of candles in any order.           *)
(***************************************************************************)
QueueTimes == {1, 2}

\* the candles pushed: they differ in bar time, in update time within one bar
\* time, and in pair within one (bar time, update time)
QueueCandles ==
    {c \in {Candle(pair, t, u, 100, 100, 100, 100, TRUE) :
                pair \in Pairs, t \in QueueTimes, u \in QueueTimes} :
        c.UpdatedAt >= c.Time /\ (c.Pair = "BTCUSDT" \/ c.UpdatedAt = 1)}

NoPop == [before |-> <<>>, item |-> Nil, called |-> FALSE]

\* NewPriorityQueue(nil)
QueueInit ==
    /\ data = <<>>
    /\ length = 0
    /\ pushed = <<>>
    /\ popped = <<>>
    /\ sincePush = <<>>
    /\ lastPop = NoPop

QueuePush ==
    /\ Len(pushed) < MaxPush
    /\ \E item \in QueueCandles :
          LET r == Push(data, length, item)
          IN  /\ data' = r.data
              /\ length' = r.length
              /\ pushed' = Append(pushed, item)
    /\ sincePush' = <<>>
    /\ lastPop' = NoPop
    /\ UNCHANGED popped
    /\ UNCHANGED <<ledgerVars, walletVars, botVars, lifeVars, streamVars, compVars>>

QueuePop ==
    /\ Len(popped) < MaxPush + 1
    /\ LET r == Pop(data, length)
       IN  /\ data' = r.data
           /\ length' = r.length
           /\ popped' = Append(popped, r.item)
           /\ sincePush' = IF r.item = Nil THEN sincePush
                           ELSE Append(sincePush, r.item)
           /\ lastPop' = [before |-> SubSeq(data, 1, length), item |-> r.item,
                          called |-> TRUE]
    /\ UNCHANGED pushed
    /\ UNCHANGED <<ledgerVars, walletVars, botVars, lifeVars, streamVars, compVars>>

QueueNext == QueuePush \/ QueuePop

(***************************************************************************)
(* Matching specification: broker calls on the paper wallet and candles.   *)
(***************************************************************************)
\* WithPaperAsset("USDT", InitialQuote), and optionally WithPaperAsset("BTC", InitialBase)
InitialQuote == 900
InitialBase == 8

NoStep == [op |-> "none", before |-> <<>>]

\* NewPaperWallet with the quote asset and, when btc is not Nil, a BTC asset
NewPaperWallet(btc) ==
    /\ orders = <<>>
    /\ assets = [a \in Assets |->
                   IF a = baseCoin THEN [Free |-> RInt(InitialQuote), Lock |-> RZero]
                   ELSE IF a = "BTC" THEN btc ELSE Nil]
    /\ avgShortPrice = [p \in Pairs |-> RZero]
    /\ avgLongPrice = [p \in Pairs |-> RZero]
    /\ volume = [p \in Pairs |-> RZero]
    /\ lastCandle = [p \in Pairs |-> ZeroCandle]
    /\ fistCandle = [p \in Pairs |-> Nil]
    /\ counter = 0
    /\ assetValues = [a \in Assets |-> <<>>]
    /\ equityValues = <<>>
    /\ execs = <<>>
    /\ calls = 0
    /\ candles = <<>>
    /\ lastStep = NoStep

WalletInit ==
    \E btc \in {Nil, [Free |-> RInt(InitialBase), Lock |-> RZero]} : NewPaperWallet(btc)

NoCtl == [op |-> "none"]

\* NewController with an empty storage, no feed subscribed yet
BotInit ==
    /\ storage = <<>>
    /\ feeds = [p \in Pairs |-> <<>>]
    /\ processed = <<>>
    /\ faults = 0
    /\ ctl = NoCtl

\* the candles of the feed at time t: a BTCUSDT bar that reaches both 85 and
\* 115, a quiet one, a falling one, and an unfinished ETHUSDT bar
FeedCandles(t) ==
    {Candle("BTCUSDT", t, t, 100, 100, 85, 115, TRUE),
     Candle("BTCUSDT", t, t, 100, 100, 95, 105, TRUE),
     Candle("BTCUSDT", t, t, 100, 88, 85, 100, TRUE),
     Candle("ETHUSDT", t, t, 100, 100, 95, 105, FALSE)}

\* the arguments of a creation call that validateFunds sees
Req(side, pair, size, price) ==
    [side |-> side, pair |-> pair, size |-> size, price |-> price]

\* what a broker call leaves behind; the history keeps the wallet as it was
\* before the call, the request and what the call returned
AfterCall(r, op, req) ==
    /\ SetPW(r.w)
    /\ calls' = calls + 1
    /\ lastStep' = [op |-> op, before |-> orders, wallet |-> PW, req |-> req,
                    err |-> r.err, error |-> IF r.err THEN r.error ELSE Nil,
                    created |-> r.created]
    /\ UNCHANGED candles

PWCreateOrderOCO ==
    /\ calls < MaxCalls
    /\ \E a \in {[side |-> SideTypeSell, price |-> 110, stop |-> 90, stopLimit |-> 88],
                 [side |-> SideTypeBuy, price |-> 95, stop |-> 105, stopLimit |-> 107]} :
          AfterCall(CreateOrderOCO(PW, a.side, "BTCUSDT", 5, a.price, a.stop, a.stopLimit),
                    "oco", Req(a.side, "BTCUSDT", 5, a.price))
    /\ UNCHANGED <<ledgerVars, queueVars, botVars, lifeVars, streamVars, compVars>>

PWCreateOrderLimit ==
    /\ calls < MaxCalls
    /\ \E a \in {[side |-> SideTypeSell, limit |-> 110],
                 [side |-> SideTypeBuy, limit |-> 95]} :
          AfterCall(CreateOrderLimit(PW, a.side, "BTCUSDT", 5, a.limit), "limit",
                    Req(a.side, "BTCUSDT", 5, a.limit))
    /\ UNCHANGED <<ledgerVars, queueVars, botVars, lifeVars, streamVars, compVars>>

PWCreateOrderStop ==
    /\ calls < MaxCalls
    /\ AfterCall(CreateOrderStop(PW, "BTCUSDT", 5, 90), "stop",
                 Req(SideTypeSell, "BTCUSDT", 5, 90))
    /\ UNCHANGED <<ledgerVars, queueVars, botVars, lifeVars, streamVars, compVars>>

PWCancel ==
    /\ calls < MaxCalls
    /\ \E i \in 1..Len(orders) :
          AfterCall([err |-> FALSE, w |-> Cancel(PW, orders[i]), created |-> <<>>],
                    "cancel", Nil)
    /\ UNCHANGED <<ledgerVars, queueVars, botVars, lifeVars, streamVars, compVars>>

PWOnCandle ==
    /\ Len(candles) < MaxCandles
    /\ \E c \in FeedCandles(Len(candles) + 1) :
          /\ SetPW(OnCandle(PW, c))
          /\ candles' = Append(candles, c)
          /\ lastStep' = [op |-> "candle", before |-> orders, wallet |-> PW]
    /\ UNCHANGED calls
    /\ UNCHANGED <<ledgerVars, queueVars, botVars, lifeVars, streamVars, compVars>>

\* PaperWallet.CreateOrderMarket, once the pair has a last price
PWCreateOrderMarket ==
    /\ calls < MaxCalls
    /\ lastCandle["BTCUSDT"].Time # 0
    /\ \E side \in SideType : \E size \in {5, 10} :
          AfterCall(createOrderMarket(PW, side, "BTCUSDT", size), "market",
                    Req(side, "BTCUSDT", size, lastCandle["BTCUSDT"].Close))
    /\ UNCHANGED <<ledgerVars, queueVars, botVars, lifeVars, streamVars, compVars>>

\* market orders only, between candles
MarketNext ==
    \/ PWCreateOrderMarket
    \/ PWOnCandle

MatchingNext ==
    \/ PWCreateOrderOCO
    \/ PWCreateOrderLimit
    \/ PWCreateOrderStop
    \/ PWCancel
    \/ PWOnCandle


(***************************************************************************)
(* Controller specification: the order controller in front of the paper    *)
(* wallet, with its storage and its reconciliation pass.                   *)
(***************************************************************************)
\* storage.CreateOrder for each created order: the next free ID is assigned
StoreCreated(st, created) ==
    st \o [k \in 1..Len(created) |-> [created[k] EXCEPT !.ID = Len(st) + k]]

\* storage.Orders: the stored orders with the given ids, ascending by the
\* update index (updated_at, then key)
RECURSIVE ByUpdateIndex(_, _)
ByUpdateIndex(st, ids) ==
    IF ids = {} THEN <<>>
    ELSE LET m == CHOOSE i \in ids : \A j \in ids :
                     \/ st[i].UpdatedAt < st[j].UpdatedAt
                     \/ st[i].UpdatedAt = st[j].UpdatedAt /\ i <= j
         IN  <<st[m]>> \o ByUpdateIndex(st, ids \ {m})

\* storage.Orders(storage.WithStatusIn(statuses...))
WithStatusIn(st, statuses) ==
    ByUpdateIndex(st, {i \in 1..Len(st) : st[i].Status \in statuses})

\* PaperWallet.Order: the first order with this exchange id, Nil for "order
\* not found"
WalletOrder(w, id) ==
    LET ix == {i \in 1..Len(w.orders) : w.orders[i].ExchangeID = id}
    IN  IF ix = {} THEN Nil
        ELSE w.orders[CHOOSE i \in ix : \A j \in ix : i <= j]

\* the errors of a failing Broker call and of a failing Storage call
ErrBroker == [Err |-> "broker"]
ErrStorage == [Err |-> "storage"]

\* the first loop of updateOrders leaving the loop at the first failing fetch
RECURSIVE reconcile_StopAtFetchError(_, _, _, _, _, _)
reconcile_StopAtFetchError(st, w, pending, k, fetchFail, persistFail) ==
    IF k > Len(pending) THEN [storage |-> st, updated |-> <<>>, notified |-> <<>>]
    ELSE LET order == pending[k]
             excOrder == WalletOrder(w, order.ExchangeID)
             rest == reconcile_StopAtFetchError(st, w, pending, k + 1, fetchFail, persistFail)
         IN  IF order.ExchangeID \in fetchFail \/ excOrder = Nil
             THEN [storage |-> st, updated |-> <<>>, notified |-> <<>>]
             ELSE IF excOrder.Status = order.Status THEN rest
             ELSE IF order.ExchangeID \in persistFail
             THEN [rest EXCEPT !.notified = <<ErrStorage>> \o @]
             ELSE LET e == [excOrder EXCEPT !.ID = order.ID]
                      r == reconcile_StopAtFetchError([st EXCEPT ![order.ID] = e], w, pending, k + 1,
                                     fetchFail, persistFail)
                  IN  [r EXCEPT !.updated = <<e>> \o @]

\* Controller.updateOrders, first loop.  fetchFail and persistFail are the
\* exchange ids for which exchange.Order and storage.UpdateOrder fail in
\* this pass: [storage, updated, notified]
RECURSIVE reconcile(_, _, _, _, _, _)
reconcile(st, w, pending, k, fetchFail, persistFail) ==
    IF k > Len(pending) THEN [storage |-> st, updated |-> <<>>, notified |-> <<>>]
    ELSE LET order == pending[k]
             excOrder == WalletOrder(w, order.ExchangeID)
             rest == reconcile(st, w, pending, k + 1, fetchFail, persistFail)
         IN  IF order.ExchangeID \in fetchFail \/ excOrder = Nil THEN rest
             ELSE IF excOrder.Status = order.Status THEN rest
             ELSE IF order.ExchangeID \in persistFail
             THEN [rest EXCEPT !.notified = <<ErrStorage>> \o @]
             ELSE LET e == [excOrder EXCEPT !.ID = order.ID]
                      r == reconcile([st EXCEPT ![order.ID] = e], w, pending, k + 1,
                                     fetchFail, persistFail)
                  IN  [r EXCEPT !.updated = <<e>> \o @]

\* Controller.updateOrders, second loop
RECURSIVE processTrades(_, _)
processTrades(L, updatedOrders) ==
    IF updatedOrders = <<>> THEN L
    ELSE processTrades(processTrade(L, Head(updatedOrders)), Tail(updatedOrders))

\* what a Controller.CreateOrder* call returns, notifies and publishes when
\* the exchange call returned r and storage.CreateOrder failed for the order
\* number failAt (0: none); stored is the storage with all of r.created saved
\* and n the number of orders persisted before the call
CtlOutcome_BrokerErrorSwallowed(r, op, failAt, stored, n) ==
    LET kept == IF failAt = 0 THEN Len(r.created) ELSE failAt - 1
    IN  IF r.err
        THEN [op |-> op, brokerErr |-> TRUE, storageErr |-> FALSE,
              ret |-> <<>>, retErr |-> Nil, notified |-> <<>>, published |-> <<>>]
        ELSE [op |-> op, brokerErr |-> FALSE, storageErr |-> failAt # 0,
              ret |-> IF failAt = 0 THEN SubSeq(stored, n + 1, Len(stored)) ELSE <<>>,
              retErr |-> IF failAt = 0 THEN Nil ELSE ErrStorage,
              notified |-> IF failAt = 0 THEN <<>> ELSE <<ErrStorage>>,
              published |-> SubSeq(stored, n + 1, n + kept)]

CtlOutcome(r, op, failAt, stored, n) ==
    LET kept == IF failAt = 0 THEN Len(r.created) ELSE failAt - 1
    IN  IF r.err
        THEN [op |-> op, brokerErr |-> TRUE, storageErr |-> FALSE,
              ret |-> <<>>, retErr |-> r.error, notified |-> <<r.error>>,
              published |-> <<>>]
        ELSE [op |-> op, brokerErr |-> FALSE, storageErr |-> failAt # 0,
              ret |-> IF failAt = 0 THEN SubSeq(stored, n + 1, Len(stored)) ELSE <<>>,
              retErr |-> IF failAt = 0 THEN Nil ELSE ErrStorage,
              notified |-> IF failAt = 0 THEN <<>> ELSE <<ErrStorage>>,
              published |-> SubSeq(stored, n + 1, n + kept)]

\* a Controller.CreateOrder* call, given what the exchange call returned;
\* failAt is the index of the created order for which storage.CreateOrder
\* fails (0: none)
CtlCreated(r, op, req, failAt) ==
    LET stored == StoreCreated(storage, r.created)
        kept == IF failAt = 0 THEN Len(r.created) ELSE failAt - 1
    IN  /\ AfterCall(r, op, req)
        /\ failAt <= Len(r.created)
        /\ faults' = IF failAt = 0 THEN faults ELSE faults + 1
        /\ storage' = IF r.err THEN storage
                      ELSE SubSeq(stored, 1, Len(storage) + kept)
        /\ IF ~r.err /\ failAt = 0 /\ op = "market"
           THEN SetLedger(processTrade(Ledger, stored[Len(stored)]))
           ELSE UNCHANGED ledgerVars
        /\ ctl' = CtlOutcome(r, op, failAt, stored, Len(storage))
        /\ UNCHANGED <<queueVars, feeds, processed, lifeVars, streamVars, compVars>>

\* the storage.CreateOrder calls that may fail in a creation
FailAt == IF faults < MaxFaults THEN {0, 1, 2} ELSE {0}

CtlCreateOrderOCO ==
    /\ calls < MaxCalls
    /\ \E a \in {[side |-> SideTypeBuy, price |-> 95, stop |-> 105, stopLimit |-> 107]} :
       \E failAt \in FailAt :
          CtlCreated(CreateOrderOCO(PW, a.side, "BTCUSDT", 5, a.price, a.stop,
                                    a.stopLimit), "oco",
                     Req(a.side, "BTCUSDT", 5, a.price), failAt)

CtlCreateOrderLimit ==
    /\ calls < MaxCalls
    /\ \E a \in {[side |-> SideTypeBuy, limit |-> 95]} :
       \E failAt \in FailAt :
          CtlCreated(CreateOrderLimit(PW, a.side, "BTCUSDT", 5, a.limit), "limit",
                     Req(a.side, "BTCUSDT", 5, a.limit), failAt)

CtlCreateOrderStop ==
    /\ calls < MaxCalls
    /\ \E failAt \in FailAt :
          CtlCreated(CreateOrderStop(PW, "BTCUSDT", 5, 90), "stop",
                     Req(SideTypeSell, "BTCUSDT", 5, 90), failAt)

\* a market order is placed once the pair has a last price
CtlCreateOrderMarket ==
    /\ calls < MaxCalls
    /\ lastCandle["BTCUSDT"].Time # 0
    /\ \E side \in {SideTypeBuy} :
       \E failAt \in FailAt :
          CtlCreated(createOrderMarket(PW, side, "BTCUSDT", 5), "market",
                     Req(side, "BTCUSDT", 5, lastCandle["BTCUSDT"].Close), failAt)

\* which call of a handler fails: none, the Broker call or the Storage call
Failing == IF faults < MaxFaults THEN {"none", "broker", "storage"} ELSE {"none"}

\* Controller.Cancel, called with the persisted copy of an order
CtlCancel ==
    /\ calls < MaxCalls
    /\ \E i \in 1..Len(storage) : \E fail \in Failing :
          LET order == storage[i]
              w == IF fail = "broker" THEN PW ELSE Cancel(PW, order)
          IN  /\ AfterCall([err |-> FALSE, w |-> w, created |-> <<>>], "cancel", Nil)
              /\ faults' = IF fail = "none" THEN faults ELSE faults + 1
              /\ storage' = IF fail = "none"
                            THEN [storage EXCEPT ![order.ID] =
                                    [order EXCEPT !.Status = OrderStatusTypePendingCancel]]
                            ELSE storage
              /\ ctl' = [op |-> "cancel", brokerErr |-> fail = "broker",
                         storageErr |-> fail = "storage", ret |-> <<>>,
                         retErr |-> IF fail = "broker" THEN ErrBroker
                                    ELSE IF fail = "storage" THEN ErrStorage ELSE Nil,
                         notified |-> IF fail = "storage" THEN <<ErrStorage>> ELSE <<>>,
                         published |-> <<>>]
    /\ UNCHANGED <<ledgerVars, queueVars, feeds, processed, lifeVars, streamVars, compVars>>

\* the orders updateOrders asks the storage for
Pending ==
    WithStatusIn(storage, {OrderStatusTypeNew, OrderStatusTypePartiallyFilled,
                           OrderStatusTypePendingCancel})

\* Controller.updateOrders, run by the ticker; in one pass the listing, or
\* the fetch or the persisting of one order may fail.  The history keeps the
\* last call that changed something or failed.
CtlUpdateOrders ==
    /\ \E fail \in Failing \cup (IF faults < MaxFaults THEN {"listing"} ELSE {}) :
       \E id \in IF fail \in {"broker", "storage"}
                 THEN {Pending[k].ExchangeID : k \in 1..Len(Pending)} ELSE {0} :
          LET r == reconcile(storage, PW, Pending, 1,
                             IF fail = "broker" THEN {id} ELSE {},
                             IF fail = "storage" THEN {id} ELSE {})
          IN  /\ faults' = IF fail = "none" THEN faults ELSE faults + 1
              /\ storage' = IF fail = "listing" THEN storage ELSE r.storage
              /\ SetLedger(IF fail = "listing" THEN Ledger
                           ELSE processTrades(Ledger, r.updated))
              /\ ctl' = IF fail = "none" /\ r.updated = <<>> THEN ctl
                        ELSE [op |-> "update", brokerErr |-> fail = "broker",
                              storageErr |-> fail \in {"storage", "listing"},
                              failed |-> fail, failedID |-> id,
                              ret |-> <<>>, retErr |-> Nil,
                              notified |-> IF fail = "listing" THEN <<ErrStorage>>
                                           ELSE r.notified,
                              published |-> IF fail = "listing" THEN <<>>
                                            ELSE r.updated]
    /\ UNCHANGED <<queueVars, walletVars, feeds, processed, lifeVars, streamVars, compVars>>

\* NinjaBot.processCandle: the candle goes to the paper wallet, then to the
\* strategy and to Controller.OnCandle, which keep no state of the model
BotProcessCandle ==
    /\ Len(candles) < MaxCandles
    /\ \E c \in {Candle("BTCUSDT", Len(candles) + 1, Len(candles) + 1,
                         100, 100, 85, 115, TRUE)} :
          /\ SetPW(OnCandle(PW, c))
          /\ candles' = Append(candles, c)
          /\ lastStep' = [op |-> "candle", before |-> orders, wallet |-> PW]
    /\ UNCHANGED calls
    /\ UNCHANGED <<ledgerVars, queueVars, botVars, lifeVars, streamVars, compVars>>

ControllerNext ==
    \/ CtlCreateOrderOCO
    \/ CtlCreateOrderLimit
    \/ CtlCreateOrderStop
    \/ CtlCreateOrderMarket
    \/ CtlCancel
    \/ CtlUpdateOrders
    \/ BotProcessCandle

(***************************************************************************)
(* Lifecycle specification: NinjaBot.Run, Controller.Start and Stop, the  *)
(* reconciliation goroutine, the dispatch goroutines of                    *)
(* DataFeedSubscription.Start, and the context handed to Run.              *)
(***************************************************************************)
MaxPasses == 3
MaxDelivered == 1

StatusRunning == "running"
StatusStopped == "stopped"

NoStop == [called |-> FALSE, at |-> 0, returned |-> FALSE, done |-> 0]

\* NewBot and NewController: no goroutine runs yet, Controller.status is the
\* zero Status, finish is an unbuffered channel nobody sends on
LifeInit(bt) ==
    /\ controllerStatus = ""
    /\ loop = "none"
    /\ stopping = "idle"
    /\ passes = <<>>
    /\ lastStop = NoStop
    /\ ctxDone = FALSE
    /\ run = "new"
    /\ backtest = bt
    /\ dispatch = [p \in Pairs |-> "none"]
    /\ feedData = [p \in Pairs |-> "none"]
    /\ delivered = [p \in Pairs |-> 0]

\* Controller.Start: a controller that is not running becomes running and
\* gets a reconciliation goroutine; a running one is left alone
Start(st, lp) ==
    IF st # StatusRunning
    THEN [status |-> StatusRunning, loop |-> "select"]
    ELSE [status |-> st, loop |-> lp]

\* NinjaBot.Run up to the point where it blocks: Controller.Start, the
\* deferred Stop, DataFeedSubscription.Start (Connect subscribes every feed
\* with context.Background() and one goroutine per feed is started), then
\* wg.Wait() in backtest mode or processCandles in live mode
RunStart ==
    /\ run = "new"
    /\ LET s == Start(controllerStatus, loop)
       IN  /\ controllerStatus' = s.status
           /\ loop' = s.loop
    /\ dispatch' = [p \in Pairs |-> "running"]
    /\ feedData' = [p \in Pairs |-> "open"]
    /\ run' = IF backtest THEN "feeding" ELSE "processing"
    /\ UNCHANGED <<stopping, passes, lastStop, ctxDone, backtest, delivered>>
    /\ UNCHANGED <<ledgerVars, queueVars, walletVars, botVars, streamVars, compVars>>

\* the context handed to Run is cancelled
CancelContext ==
    /\ run # "new"
    /\ ~ctxDone
    /\ ctxDone' = TRUE
    /\ UNCHANGED <<controllerStatus, loop, stopping, passes, lastStop, run,
                   backtest, dispatch, feedData, delivered>>
    /\ UNCHANGED <<ledgerVars, queueVars, walletVars, botVars, streamVars, compVars>>

\* the dispatch goroutine of a feed receives a candle from feed.Data and
\* hands it to the subscribers
DispatchCandle(p) ==
    /\ dispatch[p] = "running"
    /\ feedData[p] = "open"
    /\ delivered[p] < MaxDelivered
    /\ delivered' = [delivered EXCEPT ![p] = @ + 1]
    /\ UNCHANGED <<controllerStatus, loop, stopping, passes, lastStop, ctxDone,
                   run, backtest, dispatch, feedData>>
    /\ UNCHANGED <<ledgerVars, queueVars, walletVars, botVars, streamVars, compVars>>

\* CSVFeed.CandlesSubscription: after the last candle of the file the feed
\* goroutine closes the candle channel
CSVFeedClose(p) ==
    /\ backtest
    /\ feedData[p] = "open"
    /\ feedData' = [feedData EXCEPT ![p] = "closed"]
    /\ UNCHANGED <<controllerStatus, loop, stopping, passes, lastStop, ctxDone,
                   run, backtest, dispatch, delivered>>
    /\ UNCHANGED <<ledgerVars, queueVars, walletVars, botVars, streamVars, compVars>>

\* Binance.CandlesSubscription: the feed goroutine closes the candle channel
\* when the connection fails; its own context is context.Background(), which
\* is never done
WsFeedError(p) ==
    /\ ~backtest
    /\ feedData[p] = "open"
    /\ feedData' = [feedData EXCEPT ![p] = "closed"]
    /\ UNCHANGED <<controllerStatus, loop, stopping, passes, lastStop, ctxDone,
                   run, backtest, dispatch, delivered>>
    /\ UNCHANGED <<ledgerVars, queueVars, walletVars, botVars, streamVars, compVars>>

\* the dispatch goroutine of a feed finds feed.Data closed: wg.Done(), return
DispatchExit(p) ==
    /\ dispatch[p] = "running"
    /\ feedData[p] = "closed"
    /\ dispatch' = [dispatch EXCEPT ![p] = "exited"]
    /\ UNCHANGED <<controllerStatus, loop, stopping, passes, lastStop, ctxDone,
                   run, backtest, feedData, delivered>>
    /\ UNCHANGED <<ledgerVars, queueVars, walletVars, botVars, streamVars, compVars>>

\* NinjaBot.Run in backtest mode: wg.Wait() returns once every dispatch
\* goroutine has returned, backtestCandles drains the queue, and Run returns
\* into the deferred Controller.Stop
RunReturn ==
    /\ run = "feeding"
    /\ \A p \in Pairs : dispatch[p] = "exited"
    /\ run' = "deferred"
    /\ UNCHANGED <<controllerStatus, loop, stopping, passes, lastStop, ctxDone,
                   backtest, dispatch, feedData, delivered>>
    /\ UNCHANGED <<ledgerVars, queueVars, walletVars, botVars, streamVars, compVars>>

\* the reconciliation goroutine: select takes the ticker case and runs
\* updateOrders (passes holds the passes since the controller was started)
LoopTick ==
    /\ loop = "select"
    /\ Len(passes) < MaxPasses
    /\ passes' = Append(passes, "tick")
    /\ UNCHANGED <<controllerStatus, loop, stopping, lastStop, ctxDone, run,
                   backtest, dispatch, feedData, delivered>>
    /\ UNCHANGED <<ledgerVars, queueVars, walletVars, botVars, streamVars, compVars>>

\* telegram.StartHandle while Run is blocked: Controller.Start
TelegramStart ==
    /\ run \in {"feeding", "processing"}
    /\ stopping = "idle"
    /\ controllerStatus # StatusRunning
    /\ LET s == Start(controllerStatus, loop)
       IN  /\ controllerStatus' = s.status
           /\ loop' = s.loop
    /\ passes' = <<>>
    /\ lastStop' = NoStop
    /\ UNCHANGED <<stopping, ctxDone, run, backtest, dispatch, feedData, delivered>>
    /\ UNCHANGED <<ledgerVars, queueVars, walletVars, botVars, streamVars, compVars>>

\* Controller.Stop on a running controller, up to the send on finish: the
\* status becomes stopped and updateOrders runs once
StopPass(caller) ==
    /\ stopping = "idle"
    /\ controllerStatus = StatusRunning
    /\ controllerStatus' = StatusStopped
    /\ passes' = Append(passes, "stop")
    /\ stopping' = caller
    /\ lastStop' = [called |-> TRUE, at |-> Len(passes) + 1, returned |-> FALSE,
                    done |-> 0]

\* telegram.StopHandle while Run is blocked: Controller.Stop
TelegramStop ==
    /\ run \in {"feeding", "processing"}
    /\ StopPass("telegram")
    /\ UNCHANGED <<loop, ctxDone, run, backtest, dispatch, feedData, delivered>>
    /\ UNCHANGED <<ledgerVars, queueVars, walletVars, botVars, streamVars, compVars>>

\* the Controller.Stop deferred by Run, on a running controller
RunDeferredStop ==
    /\ run = "deferred"
    /\ StopPass("run")
    /\ UNCHANGED <<loop, ctxDone, run, backtest, dispatch, feedData, delivered>>
    /\ UNCHANGED <<ledgerVars, queueVars, walletVars, botVars, streamVars, compVars>>

\* the Controller.Stop deferred by Run, on a controller that is not running:
\* nothing to do, Run has returned
RunDeferredStopIdle ==
    /\ run = "deferred"
    /\ stopping # "run"
    /\ controllerStatus # StatusRunning
    /\ run' = "returned"
    /\ UNCHANGED <<controllerStatus, loop, stopping, passes, lastStop, ctxDone,
                   backtest, dispatch, feedData, delivered>>
    /\ UNCHANGED <<ledgerVars, queueVars, walletVars, botVars, streamVars, compVars>>

\* c.finish <- true is received although the goroutine does not return
StopFinish_LoopKeepsRunning ==
    /\ stopping # "idle"
    /\ loop = "select"
    /\ loop' = loop
    /\ stopping' = "idle"
    /\ lastStop' = [lastStop EXCEPT !.returned = TRUE, !.done = Len(passes)]
    /\ run' = IF stopping = "run" THEN "returned" ELSE run
    /\ UNCHANGED <<controllerStatus, passes, ctxDone, backtest, dispatch,
                   feedData, delivered>>
    /\ UNCHANGED <<ledgerVars, queueVars, walletVars, botVars, streamVars, compVars>>

\* c.finish <- true meets the finish case of the goroutine's select: the
\* goroutine stops the ticker and returns, Stop returns
StopFinish ==
    /\ stopping # "idle"
    /\ loop = "select"
    /\ loop' = "exited"
    /\ stopping' = "idle"
    /\ lastStop' = [lastStop EXCEPT !.returned = TRUE, !.done = Len(passes)]
    /\ run' = IF stopping = "run" THEN "returned" ELSE run
    /\ UNCHANGED <<controllerStatus, passes, ctxDone, backtest, dispatch,
                   feedData, delivered>>
    /\ UNCHANGED <<ledgerVars, queueVars, walletVars, botVars, streamVars, compVars>>

LifecycleNext ==
    \/ RunStart
    \/ CancelContext
    \/ \E p \in Pairs : DispatchCandle(p)
    \/ \E p \in Pairs : CSVFeedClose(p)
    \/ \E p \in Pairs : WsFeedError(p)
    \/ \E p \in Pairs : DispatchExit(p)
    \/ RunReturn
    \/ LoopTick
    \/ TelegramStart
    \/ TelegramStop
    \/ RunDeferredStop
    \/ RunDeferredStopIdle
    \/ StopFinish

\* what the Go scheduler guarantees: a goroutine that can take a step takes
\* it, and a send meets a receiver that is waiting in select. Nothing makes a
\* feed close, a connection fail, a telegram command arrive or a context be
\* cancelled.
LifecycleFairness ==
    /\ WF_vars(RunStart)
    /\ \A p \in Pairs : WF_vars(CSVFeedClose(p))
    /\ \A p \in Pairs : WF_vars(DispatchExit(p))
    /\ WF_vars(RunReturn)
    /\ WF_vars(RunDeferredStop)
    /\ WF_vars(RunDeferredStopIdle)
    /\ WF_vars(StopFinish)

(***************************************************************************)
(* Stream specification: the priority queue under concurrent callers of   *)
(* Push, Pop, Peek, Len and PopLock. Push, Pop, Peek and Len hold the      *)
(* queue's mutex from their first statement to their return, so each is    *)
(* one step; PopLock takes no lock, so its read of notifyCallbacks and its *)
(* assignment to it are two steps.                                         *)
(***************************************************************************)
MaxStreamPush == 2

\* the goroutines that call PopLock; each gets the channel named after it
Callers == {"c1", "c2"}

NoObservation == [op |-> "none"]

\* the candles pushed: one pair, ordered by bar time and then update time
StreamCandles == {c \in QueueCandles : c.Pair = "BTCUSDT"}

\* NewPriorityQueue: no callback registered
StreamInit ==
    /\ notifyCallbacks = <<>>
    /\ registering = [c \in Callers |-> [at |-> "idle"]]
    /\ notifying = [c \in Callers |-> 0]
    /\ observed = NoObservation
    /\ sending = {}
    /\ received = [c \in Callers |-> <<>>]

\* number of callbacks in cbs that send on channel c
Callbacks(cbs, c) == Cardinality({i \in 1..Len(cbs) : cbs[i] = c})

\* PriorityQueue.Push: append, sift up, then one notify goroutine per
\* registered callback
StreamPush ==
    /\ Len(pushed) < MaxStreamPush
    /\ \E item \in StreamCandles :
          LET r == Push(data, length, item)
          IN  /\ data' = r.data
              /\ length' = r.length
              /\ pushed' = Append(pushed, item)
    /\ notifying' = [c \in Callers |-> notifying[c] + Callbacks(notifyCallbacks, c)]
    /\ sincePush' = <<>>
    /\ lastPop' = NoPop
    /\ UNCHANGED <<popped, notifyCallbacks, registering, observed, sending, received>>
    /\ UNCHANGED <<ledgerVars, walletVars, botVars, lifeVars, compVars>>

\* the result of Pop recorded in the histories
Popped(r) ==
    /\ data' = r.data
    /\ length' = r.length
    /\ popped' = Append(popped, r.item)
    /\ sincePush' = IF r.item = Nil THEN sincePush ELSE Append(sincePush, r.item)
    /\ lastPop' = [before |-> SubSeq(data, 1, length), item |-> r.item,
                   called |-> TRUE]

\* PriorityQueue.Pop called directly
StreamPop ==
    /\ Len(popped) < MaxStreamPush
    /\ Popped(Pop(data, length))
    /\ UNCHANGED <<pushed, notifyCallbacks, registering, notifying, observed,
                   sending, received>>
    /\ UNCHANGED <<ledgerVars, walletVars, botVars, lifeVars, compVars>>

\* a notify goroutine started by Push runs its callback up to the send of
\* ch <- q.Pop(): it has popped (the n-th pop of the queue) and waits for the
\* consumer of the unbuffered channel
StreamNotify(c) ==
    /\ notifying[c] > 0
    /\ notifying' = [notifying EXCEPT ![c] = @ - 1]
    /\ Popped(Pop(data, length))
    /\ sending' = sending \cup {[ch |-> c, item |-> Pop(data, length).item,
                                 n |-> Len(popped) + 1]}
    /\ UNCHANGED <<pushed, notifyCallbacks, registering, observed, received>>
    /\ UNCHANGED <<ledgerVars, walletVars, botVars, lifeVars, compVars>>

\* the consumer of channel c receives: the send of one of the goroutines
\* waiting on c completes, whichever the runtime picks
StreamReceive(c) ==
    /\ \E g \in sending :
          /\ g.ch = c
          /\ sending' = sending \ {g}
          /\ received' = [received EXCEPT ![c] = Append(@, [item |-> g.item, n |-> g.n])]
    /\ UNCHANGED <<queueVars, notifyCallbacks, registering, notifying, observed>>
    /\ UNCHANGED <<ledgerVars, walletVars, botVars, lifeVars, compVars>>

\* PriorityQueue.Peek
StreamPeek ==
    /\ observed' = [op |-> "peek", item |-> Peek(data, length)]
    /\ UNCHANGED <<queueVars, notifyCallbacks, registering, notifying, sending, received>>
    /\ UNCHANGED <<ledgerVars, walletVars, botVars, lifeVars, compVars>>

\* PriorityQueue.Len
StreamLen ==
    /\ observed' = [op |-> "len", length |-> length]
    /\ UNCHANGED <<queueVars, notifyCallbacks, registering, notifying, sending, received>>
    /\ UNCHANGED <<ledgerVars, walletVars, botVars, lifeVars, compVars>>

\* PriorityQueue.PopLock, first half: append reads q.notifyCallbacks
PopLockRead(c) ==
    /\ registering[c].at = "idle"
    /\ registering' = [registering EXCEPT ![c] = [at |-> "append", read |-> notifyCallbacks]]
    /\ UNCHANGED <<queueVars, notifyCallbacks, notifying, observed, sending, received>>
    /\ UNCHANGED <<ledgerVars, walletVars, botVars, lifeVars, compVars>>

\* PriorityQueue.PopLock, second half: the slice that was read, with the
\* new callback appended, is assigned to q.notifyCallbacks and ch returned
PopLockAssign(c) ==
    /\ registering[c].at = "append"
    /\ notifyCallbacks' = Append(registering[c].read, c)
    /\ registering' = [registering EXCEPT ![c] = [at |-> "returned"]]
    /\ UNCHANGED <<queueVars, notifying, observed, sending, received>>
    /\ UNCHANGED <<ledgerVars, walletVars, botVars, lifeVars, compVars>>

StreamNext ==
    \/ StreamPush
    \/ StreamPop
    \/ \E c \in Callers : StreamNotify(c)
    \/ \E c \in Callers : StreamReceive(c)
    \/ StreamPeek
    \/ StreamLen
    \/ \E c \in Callers : PopLockRead(c)
    \/ \E c \in Callers : PopLockAssign(c)

\* the queue as NinjaBot uses it in live mode: the dispatch goroutines push
\* (onCandle) from the moment dataFeed.Start has returned, processCandles
\* registers one streaming pop and ranges over its channel
Consumer == "c1"

ConsumerNext ==
    \/ StreamPush
    \/ PopLockRead(Consumer)
    \/ PopLockAssign(Consumer)
    \/ StreamNotify(Consumer)
    \/ StreamReceive(Consumer)

\* what the Go scheduler guarantees: processCandles gets to register and
\* keeps receiving, and every notify goroutine gets to run. Nothing makes a
\* feed push another candle.
ConsumerFairness ==
    /\ WF_vars(PopLockRead(Consumer))
    /\ WF_vars(PopLockAssign(Consumer))
    /\ WF_vars(StreamNotify(Consumer))
    /\ WF_vars(StreamReceive(Consumer))

(***************************************************************************)
(* Pipeline specification: one candle at a time goes through               *)
(* NinjaBot.processCandle (live) and through the loop body of              *)
(* NinjaBot.backtestCandles (backtest), each with its own strategy         *)
(* controllers and order controller.                                       *)
(***************************************************************************)
MaxPipeline == 3
WarmupPeriod == 1

Modes == {"live", "backtest"}

\* NewStrategyController: an empty dataframe (Time and Close stand for all
\* its columns, which are written together)
NewDataframe == [Time |-> <<>>, Close |-> <<>>]

\* strategy.Controller.updateDataFrame: a candle with the time of the last
\* row overwrites that row, any other candle is appended
updateDataFrame(df, candle) ==
    IF Len(df.Time) > 0 /\ candle.Time = df.Time[Len(df.Time)]
    THEN [Time |-> [df.Time EXCEPT ![Len(df.Time)] = candle.Time],
          Close |-> [df.Close EXCEPT ![Len(df.Time)] = candle.Close]]
    ELSE [Time |-> Append(df.Time, candle.Time),
          Close |-> Append(df.Close, candle.Close)]

\* strategy.Controller.OnPartialCandle: the dataframe after it and the
\* strategy handlers it invoked; hf says whether the strategy is a
\* HighFrequencyStrategy
StrategyOnPartialCandle(df, hf, candle) ==
    IF ~candle.Complete /\ Len(df.Close) >= WarmupPeriod /\ hf
    THEN [df |-> updateDataFrame(df, candle),
          handlers |-> <<"Indicators", "OnPartialCandle">>]
    ELSE [df |-> df, handlers |-> <<>>]

\* strategy.Controller.OnCandle: a candle older than the last row is logged
\* and dropped; otherwise the dataframe is updated and, once warmed up, the
\* indicators and (when started) the strategy run on a sample
StrategyOnCandle(df, started, candle) ==
    IF Len(df.Time) > 0 /\ candle.Time < df.Time[Len(df.Time)]
    THEN [df |-> df, handlers |-> <<>>]
    ELSE LET df1 == updateDataFrame(df, candle)
         IN  IF Len(df1.Close) >= WarmupPeriod
             THEN [df |-> df1,
                   handlers |-> IF started THEN <<"Indicators", "OnCandle">>
                                ELSE <<"Indicators">>]
             ELSE [df |-> df1, handlers |-> <<>>]

\* order.Controller.OnCandle
ControllerOnCandle(lastPrice, candle) ==
    [lastPrice EXCEPT ![candle.Pair] = candle.Close]

\* NewBot and Run up to dataFeed.Start: a started strategy controller per
\* pair, no last price
NewBot(hf) ==
    [hf |-> hf,
     started |-> TRUE,
     dataframe |-> [p \in Pairs |-> NewDataframe],
     lastPrice |-> [p \in Pairs |-> 0],
     step |-> [op |-> "none"]]

\* the strategy part of both paths: OnPartialCandle, then OnCandle for a
\* complete candle
StrategySteps(b, candle) ==
    LET df0 == b.dataframe[candle.Pair]
        part == StrategyOnPartialCandle(df0, b.hf, candle)
        full == IF candle.Complete
                THEN StrategyOnCandle(part.df, b.started, candle)
                ELSE [df |-> part.df, handlers |-> <<>>]
    IN  [df |-> full.df,
         handlers |-> part.handlers \o full.handlers,
         consumers |-> <<"paperWallet.OnCandle", "strategy.OnPartialCandle">>
                       \o (IF candle.Complete THEN <<"strategy.OnCandle">> ELSE <<>>)]

\* NinjaBot.processCandle, on the bot's own state (the paper wallet is
\* handled by the action)
processCandle(b, candle) ==
    LET s == StrategySteps(b, candle)
    IN  [b EXCEPT !.dataframe[candle.Pair] = s.df,
                  !.lastPrice = IF candle.Complete
                                THEN ControllerOnCandle(b.lastPrice, candle)
                                ELSE b.lastPrice,
                  !.step = [op |-> "candle", candle |-> candle,
                            before |-> b.dataframe[candle.Pair],
                            handlers |-> s.handlers,
                            consumers |-> s.consumers \o
                                (IF candle.Complete
                                 THEN <<"orderController.OnCandle">> ELSE <<>>)]]

\* NinjaBot.backtestCandles, the body of its loop for one popped candle
backtestCandle(b, candle) ==
    LET s == StrategySteps(b, candle)
    IN  [b EXCEPT !.dataframe[candle.Pair] = s.df,
                  !.step = [op |-> "candle", candle |-> candle,
                            before |-> b.dataframe[candle.Pair],
                            handlers |-> s.handlers,
                            consumers |-> s.consumers]]

PipelineTimes == {1, 2}

\* the candles of the pipeline: complete and partial bars of both pairs,
\* whose close tells the bar and its completeness
PipelineCandles ==
    {Candle(pair, t, t, 100, 100 + t + (IF complete THEN 0 ELSE 5), 95, 110, complete) :
        pair \in Pairs, t \in PipelineTimes, complete \in BOOLEAN}

\* both bots built for the same strategy
PipelineInit(hf) ==
    bots = [m \in Modes |-> NewBot(hf)]

\* the same candle is handed to both paths; the paper wallet sees it once
PipelineCandle ==
    /\ Len(candles) < MaxPipeline
    /\ \E c \in PipelineCandles :
          /\ bots' = [live |-> processCandle(bots["live"], c),
                      backtest |-> backtestCandle(bots["backtest"], c)]
          /\ SetPW(OnCandle(PW, c))
          /\ candles' = Append(candles, c)
          /\ lastStep' = [op |-> "candle", before |-> orders, wallet |-> PW]
    /\ UNCHANGED <<calls, datafeed, csv, orderfeed>>
    /\ UNCHANGED <<ledgerVars, queueVars, botVars, lifeVars, streamVars>>

PipelineNext == PipelineCandle

(***************************************************************************)
(* Data feed specification: DataFeedSubscription.Subscribe and Start, the  *)
(* dispatch goroutine of each feed, and the feeder behind each feed.       *)
(***************************************************************************)
MaxSubs == 2
MaxBacklog == 2

\* the candle sequences a feeder sends before it closes its channels, in
\* time order: complete and incomplete bars for BTCUSDT (a live or resampled
\* feed), complete bars for ETHUSDT (a plain file)
Backlogs(pair) ==
    UNION {{[i \in 1..n |-> Candle(pair, i, i, 100, 100, 95, 105, f[i])] :
                f \in [1..n -> IF pair = "BTCUSDT" THEN BOOLEAN ELSE {TRUE}]} :
              n \in 0..MaxBacklog}

\* the number of transport errors a feeder reports: a file feed reports none
FeedErrors(pair) == IF pair = "BTCUSDT" THEN {0, 1} ELSE {0}

\* NewDataFeed, and the feeders' plans: what each will send, and how many
\* transport errors it will report
NewDataFeed(backlog, errs) ==
    [subs |-> [p \in Pairs |-> <<>>],
     backlog |-> backlog,
     errs |-> errs,
     feed |-> [p \in Pairs |-> "none"],
     loops |-> [p \in Pairs |-> "none"],
     start |-> "none",
     loadSync |-> FALSE,
     sent |-> [p \in Pairs |-> <<>>],
     dlog |-> [p \in Pairs |-> <<>>],
     logged |-> 0]

DataFeedInit(backlog, errs) == datafeed = NewDataFeed(backlog, errs)

\* the keys of d.Feeds: those with at least one subscription
FeedKeys(d) == {p \in Pairs : d.subs[p] # <<>>}

\* DataFeedSubscription.Subscribe (before Start, as in NinjaBot.Run)
Subscribe(d, pair, onCandleClose) ==
    [d EXCEPT !.subs[pair] = Append(@, [onCandleClose |-> onCandleClose])]

\* the body of the dispatch loop for a candle, with the completed-only
\* flag ignored
dispatchTo_EverySubscriber(subs, candle) ==
    [i \in 1..Len(subs) |-> i]

\* the subscriptions a candle is handed to, in the order of the loop over
\* SubscriptionsByDataFeed[key]: completed-only ones are skipped for an
\* incomplete candle
RECURSIVE dispatchTo(_, _)
dispatchTo(subs, candle) ==
    IF subs = <<>> THEN <<>>
    ELSE LET n == Len(subs)
             front == dispatchTo(SubSeq(subs, 1, n - 1), candle)
         IN  IF subs[n].onCandleClose /\ ~candle.Complete
             THEN front
             ELSE Append(front, n)

\* DataFeedSubscription.Start without the wait
DataFeedStart_NoWait(loadSync) ==
    /\ datafeed.start = "none"
    /\ FeedKeys(datafeed) # {}
    /\ datafeed' = [datafeed EXCEPT
          !.feed = [p \in Pairs |-> IF p \in FeedKeys(datafeed) THEN "open" ELSE "none"],
          !.loops = [p \in Pairs |-> IF p \in FeedKeys(datafeed) THEN "running" ELSE "none"],
          !.loadSync = loadSync,
          !.start = "returned"]
    /\ UNCHANGED <<bots, csv, orderfeed>>
    /\ UNCHANGED <<ledgerVars, queueVars, walletVars, botVars, lifeVars, streamVars>>

\* DataFeedSubscription.Start: Connect opens a feed per key, a dispatch
\* goroutine is started per feed, and with loadSync the call waits for the
\* WaitGroup
DataFeedStart(loadSync) ==
    /\ datafeed.start = "none"
    /\ FeedKeys(datafeed) # {}
    /\ datafeed' = [datafeed EXCEPT
          !.feed = [p \in Pairs |-> IF p \in FeedKeys(datafeed) THEN "open" ELSE "none"],
          !.loops = [p \in Pairs |-> IF p \in FeedKeys(datafeed) THEN "running" ELSE "none"],
          !.loadSync = loadSync,
          !.start = IF loadSync THEN "waiting" ELSE "returned"]
    /\ UNCHANGED <<bots, csv, orderfeed>>
    /\ UNCHANGED <<ledgerVars, queueVars, walletVars, botVars, lifeVars, streamVars>>

DataFeedSubscribe ==
    /\ datafeed.start = "none"
    /\ Cardinality({<<p, i>> \in Pairs \X (1..MaxSubs) : i <= Len(datafeed.subs[p])}) < MaxSubs
    /\ \E p \in Pairs, onCandleClose \in BOOLEAN :
          datafeed' = Subscribe(datafeed, p, onCandleClose)
    /\ UNCHANGED <<bots, csv, orderfeed>>
    /\ UNCHANGED <<ledgerVars, queueVars, walletVars, botVars, lifeVars, streamVars>>

\* the dispatch goroutine of a feed receives the feeder's next candle and
\* hands it to the subscriptions of the key
DataFeedCandle(p) ==
    /\ datafeed.loops[p] = "running"
    /\ datafeed.feed[p] = "open"
    /\ datafeed.backlog[p] # <<>>
    /\ LET candle == Head(datafeed.backlog[p])
           n == Len(datafeed.sent[p]) + 1
           to == dispatchTo(datafeed.subs[p], candle)
       IN  datafeed' = [datafeed EXCEPT
              !.backlog[p] = Tail(@),
              !.sent[p] = Append(@, candle),
              !.dlog[p] = @ \o [j \in 1..Len(to) |-> [sub |-> to[j], n |-> n]]]
    /\ UNCHANGED <<bots, csv, orderfeed>>
    /\ UNCHANGED <<ledgerVars, queueVars, walletVars, botVars, lifeVars, streamVars>>

\* the dispatch goroutine of a feed receives a transport error: it is
\* logged and the loop goes on
DataFeedError(p) ==
    /\ datafeed.loops[p] = "running"
    /\ datafeed.feed[p] = "open"
    /\ datafeed.errs[p] > 0
    /\ datafeed' = [datafeed EXCEPT !.errs[p] = @ - 1, !.logged = @ + 1]
    /\ UNCHANGED <<bots, csv, orderfeed>>
    /\ UNCHANGED <<ledgerVars, queueVars, walletVars, botVars, lifeVars, streamVars>>

\* the feeder has sent everything and closes its channels
FeederClose(p) ==
    /\ datafeed.feed[p] = "open"
    /\ datafeed.backlog[p] = <<>>
    /\ datafeed.errs[p] = 0
    /\ datafeed' = [datafeed EXCEPT !.feed[p] = "closed"]
    /\ UNCHANGED <<bots, csv, orderfeed>>
    /\ UNCHANGED <<ledgerVars, queueVars, walletVars, botVars, lifeVars, streamVars>>

\* the dispatch goroutine finds feed.Data closed: wg.Done(), return
DataFeedLoopExit(p) ==
    /\ datafeed.loops[p] = "running"
    /\ datafeed.feed[p] = "closed"
    /\ datafeed' = [datafeed EXCEPT !.loops[p] = "exited"]
    /\ UNCHANGED <<bots, csv, orderfeed>>
    /\ UNCHANGED <<ledgerVars, queueVars, walletVars, botVars, lifeVars, streamVars>>

\* wg.Wait() returns once every dispatch goroutine has called wg.Done()
DataFeedStartReturn ==
    /\ datafeed.start = "waiting"
    /\ \A p \in FeedKeys(datafeed) : datafeed.loops[p] = "exited"
    /\ datafeed' = [datafeed EXCEPT !.start = "returned"]
    /\ UNCHANGED <<bots, csv, orderfeed>>
    /\ UNCHANGED <<ledgerVars, queueVars, walletVars, botVars, lifeVars, streamVars>>

DataFeedNext ==
    \/ DataFeedSubscribe
    \/ \E loadSync \in BOOLEAN : DataFeedStart(loadSync)
    \/ \E p \in Pairs : DataFeedCandle(p)
    \/ \E p \in Pairs : DataFeedError(p)
    \/ \E p \in Pairs : FeederClose(p)
    \/ \E p \in Pairs : DataFeedLoopExit(p)
    \/ DataFeedStartReturn

\* what the Go scheduler guarantees: a dispatch goroutine that can receive
\* does, and a satisfied wg.Wait() returns. Nothing makes a feeder close.
DataFeedFairness ==
    /\ \A p \in Pairs : WF_vars(DataFeedCandle(p))
    /\ \A p \in Pairs : WF_vars(DataFeedError(p))
    /\ \A p \in Pairs : WF_vars(DataFeedLoopExit(p))
    /\ WF_vars(DataFeedStartReturn)

(***************************************************************************)
(* Order feed specification: order.Feed with one pair and one subscriber,  *)
(* the controller's lock, creations that publish asynchronously and        *)
(* reconciliation passes that publish while they hold the lock.            *)
(***************************************************************************)
MaxOrders == 2

EventNew == "NEW"
EventFilled == "FILLED"

NoPass == [active |-> FALSE, toPublish |-> <<>>]

\* NewOrderFeed and NewController: no channel, no subscription, no goroutine
OrderFeedInit ==
    orderfeed = [channel |-> FALSE, subscribed |-> FALSE, started |-> FALSE,
                 loop |-> "none", mtx |-> "free", created |-> 0,
                 status |-> [o \in 1..MaxOrders |-> "none"],
                 changes |-> <<>>, publishing |-> {}, pass |-> NoPass,
                 delivered |-> <<>>]

\* Feed.Subscribe for the pair: the channel is made when it is missing
FeedSubscribe ==
    /\ ~orderfeed.subscribed
    /\ orderfeed' = [orderfeed EXCEPT !.channel = TRUE, !.subscribed = TRUE]
    /\ UNCHANGED <<bots, datafeed, csv>>
    /\ UNCHANGED <<ledgerVars, queueVars, walletVars, botVars, lifeVars, streamVars>>

\* Feed.Start: one goroutine for each pair that has a channel now
FeedStart ==
    /\ ~orderfeed.started
    /\ orderfeed' = [orderfeed EXCEPT
          !.started = TRUE,
          !.loop = IF orderfeed.channel THEN "idle" ELSE "none"]
    /\ UNCHANGED <<bots, datafeed, csv>>
    /\ UNCHANGED <<ledgerVars, queueVars, walletVars, botVars, lifeVars, streamVars>>

\* Feed.Publish as called by `go c.orderFeed.Publish(order, true)`: the
\* goroutines that will send an event, given those there are; none is added
\* when the pair has no channel, as Publish returns at once
publishAsync(feed, event) ==
    IF feed.channel THEN feed.publishing \cup {event} ELSE feed.publishing

\* Controller.CreateOrderLimit called by the strategy: under the lock the
\* order is created and persisted and the goroutine that publishes it is
\* started; the lock is released on return
OFCreateOrder ==
    /\ orderfeed.mtx = "free"
    /\ orderfeed.created < MaxOrders
    /\ LET o == orderfeed.created + 1
       IN  orderfeed' = [orderfeed EXCEPT
              !.created = o,
              !.status[o] = EventNew,
              !.changes = Append(@, <<o, EventNew>>),
              !.publishing = publishAsync(orderfeed, <<o, EventNew>>)]
    /\ UNCHANGED <<bots, datafeed, csv>>
    /\ UNCHANGED <<ledgerVars, queueVars, walletVars, botVars, lifeVars, streamVars>>

\* the orders a pass may find filled at the Broker, as sequences in the order
\* of the listing
FilledNow(feed) ==
    LET new == {o \in 1..MaxOrders : feed.status[o] = EventNew}
    IN  {<<>>} \cup {<<o>> : o \in new} \cup
        {p \in new \X new : p[1] < p[2]}

\* the events of the changes a pass persisted
RECURSIVE filledEvents(_)
filledEvents(os) ==
    IF os = <<>> THEN <<>> ELSE <<<<Head(os), EventFilled>>>> \o filledEvents(Tail(os))

\* Controller.updateOrders, first loop: the lock is taken, the orders whose
\* status changed are persisted and collected
OFUpdateBegin ==
    /\ orderfeed.mtx = "free"
    /\ ~orderfeed.pass.active
    /\ \E os \in FilledNow(orderfeed) :
          orderfeed' = [orderfeed EXCEPT
             !.mtx = "update",
             !.status = [o \in 1..MaxOrders |->
                            IF \E k \in 1..Len(os) : os[k] = o THEN EventFilled ELSE @[o]],
             !.changes = @ \o filledEvents(os),
             !.pass = [active |-> TRUE,
                       toPublish |-> IF orderfeed.channel THEN filledEvents(os) ELSE <<>>]]
    /\ UNCHANGED <<bots, datafeed, csv>>
    /\ UNCHANGED <<ledgerVars, queueVars, walletVars, botVars, lifeVars, streamVars>>

\* what the subscriber does with an event: it returns, or it reacts by calling
\* an operation of the controller
Reactions == {"consumer", "calling"}

\* Controller.updateOrders, second loop: Publish sends on the unbuffered
\* channel, which needs the feed's goroutine to be at its receive; the
\* goroutine then runs the subscriber
OFUpdatePublish ==
    /\ orderfeed.pass.active
    /\ orderfeed.pass.toPublish # <<>>
    /\ orderfeed.loop = "idle"
    /\ \E reaction \in Reactions :
          orderfeed' = [orderfeed EXCEPT
             !.pass.toPublish = Tail(@),
             !.loop = reaction,
             !.delivered = Append(@, Head(orderfeed.pass.toPublish))]
    /\ UNCHANGED <<bots, datafeed, csv>>
    /\ UNCHANGED <<ledgerVars, queueVars, walletVars, botVars, lifeVars, streamVars>>

\* Controller.updateOrders returns: the deferred Unlock
OFUpdateEnd ==
    /\ orderfeed.pass.active
    /\ orderfeed.pass.toPublish = <<>>
    /\ orderfeed' = [orderfeed EXCEPT !.pass = NoPass, !.mtx = "free"]
    /\ UNCHANGED <<bots, datafeed, csv>>
    /\ UNCHANGED <<ledgerVars, queueVars, walletVars, botVars, lifeVars, streamVars>>

\* a publishing goroutine of a creation sends its event
OFAsyncPublish ==
    /\ orderfeed.loop = "idle"
    /\ \E event \in orderfeed.publishing : \E reaction \in Reactions :
          orderfeed' = [orderfeed EXCEPT
             !.publishing = @ \ {event},
             !.loop = reaction,
             !.delivered = Append(@, event)]
    /\ UNCHANGED <<bots, datafeed, csv>>
    /\ UNCHANGED <<ledgerVars, queueVars, walletVars, botVars, lifeVars, streamVars>>

\* the subscriber's call of a controller operation (Cancel): it needs the
\* lock, and releases it on return
OFSubscriberCall ==
    /\ orderfeed.loop = "calling"
    /\ orderfeed.mtx = "free"
    /\ orderfeed' = [orderfeed EXCEPT !.loop = "consumer"]
    /\ UNCHANGED <<bots, datafeed, csv>>
    /\ UNCHANGED <<ledgerVars, queueVars, walletVars, botVars, lifeVars, streamVars>>

\* the subscriber returns and the goroutine is at its receive again
OFSubscriberReturn ==
    /\ orderfeed.loop = "consumer"
    /\ orderfeed' = [orderfeed EXCEPT !.loop = "idle"]
    /\ UNCHANGED <<bots, datafeed, csv>>
    /\ UNCHANGED <<ledgerVars, queueVars, walletVars, botVars, lifeVars, streamVars>>

OrderFeedNext ==
    \/ FeedSubscribe
    \/ FeedStart
    \/ OFCreateOrder
    \/ OFUpdateBegin
    \/ OFUpdatePublish
    \/ OFUpdateEnd
    \/ OFAsyncPublish
    \/ OFSubscriberCall
    \/ OFSubscriberReturn

\* every goroutine that can take a step eventually takes one; the calls of
\* the strategy, of the ticker and of the program's set-up are not forced
OrderFeedFairness ==
    /\ WF_vars(OFUpdatePublish)
    /\ WF_vars(OFUpdateEnd)
    /\ WF_vars(OFAsyncPublish)
    /\ WF_vars(OFSubscriberCall)
    /\ WF_vars(OFSubscriberReturn)

(***************************************************************************)
(* CSV feed specification: NewCSVFeed resamples the 5m bars of one pair to *)
(* 15m; then CandlesByLimit calls and one CandlesSubscription consume the  *)
(* resampled series. Times are minutes since the epoch.                    *)
(***************************************************************************)
MaxSeries == 5
MaxLimitCalls == 2
MaxLimit == 3

SourceMinutes == 5
TargetMinutes == 15

\* time.Time.Minute()
Minute(t) == t % 60

\* isLastCandlePeriod(t, "5m", "15m"): the next source bar starts a period
isLastCandlePeriod(t) == Minute(t + SourceMinutes) % TargetMinutes = 0

\* isFistCandlePeriod(t, "5m", "15m"): the previous source bar ended a period
isFistCandlePeriod(t) == isLastCandlePeriod(t - SourceMinutes)

\* a bar of the source series, complete as NewCSVFeed marks it; rising says
\* whether the bar rises
SourceBar(t, rising) ==
    [Time |-> t, Open |-> IF rising THEN 100 ELSE 104, Close |-> IF rising THEN 103 ELSE 99,
     Low |-> IF rising THEN 98 ELSE 96, High |-> IF rising THEN 106 ELSE 108,
     Volume |-> IF rising THEN 1 ELSE 2, Complete |-> TRUE]

\* the slot of the i-th bar of a series that starts at slot first and has
\* no bar for the slot after its gap-th bar (gap 0: no bar is missing)
SlotOf(first, gap, i) == first + i - 1 + (IF gap > 0 /\ i > gap THEN 1 ELSE 0)

\* the series read from the file: up to MaxSeries 5m bars in time order,
\* starting anywhere in a period, with at most one bar missing
SourceSeries ==
    UNION {{[i \in 1..n |-> SourceBar(SlotOf(first, gap, i) * SourceMinutes, rising[i])] :
                rising \in [1..n -> BOOLEAN]} :
              n \in 0..MaxSeries,
              first \in 0..((TargetMinutes \div SourceMinutes) - 1), gap \in 0..MaxSeries}

IMax(a, b) == IF a >= b THEN a ELSE b

IMin(a, b) == IF a < b THEN a ELSE b

\* resample, the merge of a bar into the open target bar before it, with
\* the bar's own volume kept
mergeCandle_OwnVolume(prev, candle) ==
    [candle EXCEPT !.Time = prev.Time, !.Open = prev.Open,
                   !.High = IMax(prev.High, candle.High),
                   !.Low = IMin(prev.Low, candle.Low)]

\* resample, the merge of a bar into the open target bar before it: time
\* and open of that bar, running high and low, accumulated volume
mergeCandle(prev, candle) ==
    [candle EXCEPT !.Time = prev.Time, !.Open = prev.Open,
                   !.High = IMax(prev.High, candle.High),
                   !.Low = IMin(prev.Low, candle.Low),
                   !.Volume = candle.Volume + prev.Volume]

\* resample, first loop: the index of the first bar that starts a period
\* (Len + 1 when there is none)
RECURSIVE firstOfPeriod(_, _)
firstOfPeriod(source, i) ==
    IF i > Len(source) \/ isFistCandlePeriod(source[i].Time) THEN i
    ELSE firstOfPeriod(source, i + 1)

\* resample, second loop from index i with the target bars built so far
RECURSIVE mergeFrom(_, _, _)
mergeFrom(source, i, built) ==
    IF i > Len(source) THEN built
    ELSE LET candle == [source[i] EXCEPT !.Complete = isLastCandlePeriod(source[i].Time)]
             lastIndex == Len(built)
             merged == IF lastIndex >= 1 /\ ~built[lastIndex].Complete
                       THEN mergeCandle(built[lastIndex], candle)
                       ELSE candle
         IN  mergeFrom(source, i + 1, Append(built, merged))

\* CSVFeed.resample: the target series, or a panic when
\* candles[len(candles)-1] is evaluated on an empty slice
resample(source) ==
    LET built == mergeFrom(source, firstOfPeriod(source, 1), <<>>)
    IN  IF built = <<>>
        THEN [panic |-> TRUE, target |-> <<>>]
        ELSE [panic |-> FALSE,
              target |-> IF ~built[Len(built)].Complete
                         THEN SubSeq(built, 1, Len(built) - 1)
                         ELSE built]

NoLimit == [called |-> FALSE]

\* the file of the pair has been read
CSVInit(source) ==
    csv = [source |-> source, state |-> "read", series |-> <<>>,
           resampled |-> <<>>, taken |-> <<>>, limitCalls |-> 0,
           lastLimit |-> NoLimit,
           sub |-> "none", toSend |-> <<>>, streamed |-> <<>>]

\* NewCSVFeed, its call of resample on the series that was read
CSVResample ==
    /\ csv.state = "read"
    /\ LET r == resample(csv.source)
       IN  csv' = [csv EXCEPT !.state = IF r.panic THEN "panic" ELSE "ready",
                              !.series = r.target,
                              !.resampled = r.target]
    /\ UNCHANGED <<bots, datafeed, orderfeed>>
    /\ UNCHANGED <<ledgerVars, queueVars, walletVars, botVars, lifeVars, streamVars>>

\* CandlesByLimit that leaves the series as it is
CandlesByLimit_SeriesKept(series, limit) ==
    IF Len(series) < limit
    THEN [err |-> TRUE, result |-> <<>>, series |-> series]
    ELSE [err |-> FALSE, result |-> SubSeq(series, 1, limit), series |-> series]

\* CSVFeed.CandlesByLimit: the first limit bars, removed from the series, or
\* ErrInsufficientData
CandlesByLimit(series, limit) ==
    IF Len(series) < limit
    THEN [err |-> TRUE, result |-> <<>>, series |-> series]
    ELSE [err |-> FALSE, result |-> SubSeq(series, 1, limit),
          series |-> SubSeq(series, limit + 1, Len(series))]

CSVCandlesByLimit ==
    /\ csv.state = "ready"
    /\ csv.sub = "none"
    /\ csv.limitCalls < MaxLimitCalls
    /\ \E limit \in 1..MaxLimit :
          LET r == CandlesByLimit(csv.series, limit)
          IN  csv' = [csv EXCEPT
                 !.series = r.series,
                 !.limitCalls = @ + 1,
                 !.taken = IF r.err THEN @ ELSE Append(@, r.result),
                 !.lastLimit = [called |-> TRUE, limit |-> limit, err |-> r.err,
                                result |-> r.result, before |-> csv.series]]
    /\ UNCHANGED <<bots, datafeed, orderfeed>>
    /\ UNCHANGED <<ledgerVars, queueVars, walletVars, botVars, lifeVars, streamVars>>

\* CSVFeed.CandlesSubscription: a goroutine is started that ranges over the
\* series as it is when the range expression is evaluated; no limit query
\* follows the subscription
CSVSubscribe ==
    /\ csv.state = "ready"
    /\ csv.sub = "none"
    /\ csv' = [csv EXCEPT !.sub = "streaming", !.toSend = csv.series]
    /\ UNCHANGED <<bots, datafeed, orderfeed>>
    /\ UNCHANGED <<ledgerVars, queueVars, walletVars, botVars, lifeVars, streamVars>>

\* the subscription goroutine sends its next bar and the receiver takes it
CSVSend ==
    /\ csv.sub = "streaming"
    /\ csv.toSend # <<>>
    /\ csv' = [csv EXCEPT !.toSend = Tail(@), !.streamed = Append(@, Head(csv.toSend))]
    /\ UNCHANGED <<bots, datafeed, orderfeed>>
    /\ UNCHANGED <<ledgerVars, queueVars, walletVars, botVars, lifeVars, streamVars>>

\* the subscription goroutine has sent every bar: close(ccandle), close(cerr)
CSVClose ==
    /\ csv.sub = "streaming"
    /\ csv.toSend = <<>>
    /\ csv' = [csv EXCEPT !.sub = "closed"]
    /\ UNCHANGED <<bots, datafeed, orderfeed>>
    /\ UNCHANGED <<ledgerVars, queueVars, walletVars, botVars, lifeVars, streamVars>>

CSVNext ==
    \/ CSVResample
    \/ CSVCandlesByLimit
    \/ CSVSubscribe
    \/ CSVSend
    \/ CSVClose

NoFeeds == [p \in Pairs |-> <<>>]
NoErrors == [p \in Pairs |-> 0]

CompInit == PipelineInit(FALSE) /\ DataFeedInit(NoFeeds, NoErrors) /\ CSVInit(<<>>) /\ OrderFeedInit

(***************************************************************************)
(* Backtest specification: the feeds load every candle into the queue,     *)
(* then backtestCandles drains it into the paper wallet and the strategy.  *)
(***************************************************************************)
\* the candles a pair's CSV feed delivers: n bars in file order
FeedOf(pair, n) ==
    [t \in 1..n |-> Candle(pair, t, t, 100, 100, 95, 105, TRUE)]

\* Run in backtest mode, after Subscribe for every pair
BacktestInit ==
    /\ LedgerInit /\ QueueInit /\ NewPaperWallet(Nil)
    /\ LifeInit(TRUE) /\ StreamInit /\ CompInit
    /\ storage = <<>>
    /\ processed = <<>>
    /\ faults = 0
    /\ ctl = NoCtl
    /\ \E n \in [Pairs -> 1..MaxFeedLen] : feeds = [p \in Pairs |-> FeedOf(p, n[p])]

\* DataFeedSubscription.Start, one goroutine per feed: the next candle of a
\* feed goes to NinjaBot.onCandle, which pushes it
FeedDeliver ==
    /\ \E p \in Pairs :
          /\ feeds[p] # <<>>
          /\ LET item == Head(feeds[p])
                 r == Push(data, length, item)
             IN  /\ data' = r.data
                 /\ length' = r.length
                 /\ pushed' = Append(pushed, item)
          /\ feeds' = [feeds EXCEPT ![p] = Tail(@)]
    /\ sincePush' = <<>>
    /\ lastPop' = NoPop
    /\ UNCHANGED <<popped, storage, processed, faults, ctl>>
    /\ UNCHANGED <<ledgerVars, walletVars, lifeVars, streamVars, compVars>>

\* NinjaBot.backtestCandles, one iteration of the loop; Start(loadSync) has
\* waited for every feed to close
BacktestStep ==
    /\ \A p \in Pairs : feeds[p] = <<>>
    /\ length > 0
    /\ LET r == Pop(data, length)
       IN  /\ data' = r.data
           /\ length' = r.length
           /\ popped' = Append(popped, r.item)
           /\ sincePush' = Append(sincePush, r.item)
           /\ lastPop' = [before |-> SubSeq(data, 1, length), item |-> r.item,
                          called |-> TRUE]
           /\ SetPW(OnCandle(PW, r.item))
           /\ candles' = Append(candles, r.item)
           /\ processed' = Append(processed, r.item)
    /\ lastStep' = [op |-> "candle", before |-> orders, wallet |-> PW]
    /\ UNCHANGED <<pushed, calls, storage, feeds, faults, ctl>>
    /\ UNCHANGED <<ledgerVars, lifeVars, streamVars, compVars>>

BacktestNext == FeedDeliver \/ BacktestStep

(***************************************************************************)
(* Specifications: each runs one component from the constructed state.     *)
(***************************************************************************)
Init ==
    /\ LedgerInit /\ QueueInit /\ NewPaperWallet(Nil) /\ BotInit
    /\ LifeInit(FALSE) /\ StreamInit /\ CompInit
MatchingInit ==
    /\ LedgerInit /\ QueueInit /\ WalletInit /\ BotInit
    /\ LifeInit(FALSE) /\ StreamInit /\ CompInit
PipelineSpecInit ==
    /\ LedgerInit /\ QueueInit /\ NewPaperWallet(Nil) /\ BotInit
    /\ LifeInit(FALSE) /\ StreamInit
    /\ DataFeedInit(NoFeeds, NoErrors) /\ CSVInit(<<>>) /\ OrderFeedInit
    /\ \E hf \in BOOLEAN : PipelineInit(hf)
CSVSpecInit ==
    /\ LedgerInit /\ QueueInit /\ NewPaperWallet(Nil) /\ BotInit
    /\ LifeInit(FALSE) /\ StreamInit
    /\ PipelineInit(FALSE) /\ DataFeedInit(NoFeeds, NoErrors)
    /\ (\E source \in SourceSeries : CSVInit(source))
    /\ OrderFeedInit
DataFeedSpecInit ==
    /\ LedgerInit /\ QueueInit /\ NewPaperWallet(Nil) /\ BotInit
    /\ LifeInit(FALSE) /\ StreamInit
    /\ PipelineInit(FALSE) /\ CSVInit(<<>>) /\ OrderFeedInit
    /\ \E backlog \in [Pairs -> UNION {Backlogs(p) : p \in Pairs}],
          errs \in [Pairs -> {0, 1}] :
          /\ \A p \in Pairs : backlog[p] \in Backlogs(p) /\ errs[p] \in FeedErrors(p)
          /\ DataFeedInit(backlog, errs)
LifecycleInit ==
    /\ LedgerInit /\ QueueInit /\ NewPaperWallet(Nil) /\ BotInit /\ StreamInit
    /\ CompInit
    /\ \E bt \in BOOLEAN : LifeInit(bt)

SpecLedger == Init /\ [][LedgerNext]_vars

SpecQueue == Init /\ [][QueueNext]_vars

SpecMatching == MatchingInit /\ [][MatchingNext]_vars

SpecMarket == MatchingInit /\ [][MarketNext]_vars

SpecOrderFeed == Init /\ [][OrderFeedNext]_vars

SpecOrderFeedFair == Init /\ [][OrderFeedNext]_vars /\ OrderFeedFairness

SpecController == Init /\ [][ControllerNext]_vars

SpecBacktest == BacktestInit /\ [][BacktestNext]_vars

SpecLifecycle == LifecycleInit /\ [][LifecycleNext]_vars

SpecLifecycleFair == LifecycleInit /\ [][LifecycleNext]_vars /\ LifecycleFairness

SpecStream == Init /\ [][StreamNext]_vars

SpecPipeline == PipelineSpecInit /\ [][PipelineNext]_vars

SpecDataFeed == DataFeedSpecInit /\ [][DataFeedNext]_vars

SpecDataFeedFair == DataFeedSpecInit /\ [][DataFeedNext]_vars /\ DataFeedFairness

SpecCSV == CSVSpecInit /\ [][CSVNext]_vars

SpecConsumer == Init /\ [][ConsumerNext]_vars

SpecConsumerFair == Init /\ [][ConsumerNext]_vars /\ ConsumerFairness

(***************************************************************************)
(* Claims about the position ledger (checked under SpecLedger).            *)
(***************************************************************************)
\* the last processTrade call was a fill on the side opposite to the position
OppositeFill ==
    /\ last.applied
    /\ last.before # Nil
    /\ last.before.Side # last.order.Side

\* C1: a fill o on the side opposite to position p emits a Result with
\* pnlPct = (o.price - p.avg) / p.avg, pnlAbs = (o.price - p.avg) * min(p.qty, o.qty)
\* and side = p.side, all taken from p as it was before the fill (o.price is
\* the price the fill is executed at).
C1_ResultFromPositionBeforeFill ==
    OppositeFill =>
        LET p == last.before
            o == last.order
            price == RInt(UpdatePrice(o))
        IN  /\ last.result # Nil
            /\ last.result.ProfitPercent = RDiv(RSub(price, p.AvgPrice), p.AvgPrice)
            /\ last.result.ProfitValue =
                   RMul(RSub(price, p.AvgPrice), RInt(IMin(p.Quantity, o.Quantity)))
            /\ last.result.Side = p.Side

RECURSIVE SumProfitValue(_)
SumProfitValue(rs) ==
    IF rs = <<>> THEN RZero
    ELSE RAdd(Head(rs).ProfitValue, SumProfitValue(Tail(rs)))

\* C3: at every point of a run the per-pair summary's Profit() equals the sum
\* of the ProfitValue of all Results emitted so far for that pair.
C3_SummaryProfitIsSumOfResults ==
    \A pair \in Pairs :
        LET recorded == IF Results[pair] = Nil THEN RZero ELSE Profit(Results[pair])
        IN  recorded = SumProfitValue(emitted[pair])

\* the fills of one pair, in order
RECURSIVE FillsOf(_, _)
FillsOf(fs, pair) ==
    IF fs = <<>> THEN <<>>
    ELSE IF Head(fs).Pair = pair THEN <<Head(fs)>> \o FillsOf(Tail(fs), pair)
         ELSE FillsOf(Tail(fs), pair)

\* brute-force cash-flow ledger: cash received minus cash paid, the signed
\* quantity held, and the cost of the open quantity at average cost
RECURSIVE CashLedger(_)
CashLedger(fs) ==
    IF fs = <<>> THEN [cash |-> RZero, qty |-> 0, cost |-> RZero]
    ELSE LET prev == CashLedger(SubSeq(fs, 1, Len(fs) - 1))
             o == fs[Len(fs)]
             price == RInt(UpdatePrice(o))
             signed == IF o.Side = SideTypeBuy THEN o.Quantity ELSE -o.Quantity
             qty == prev.qty + signed
             flow == RMul(price, RInt(-signed))
             adds == prev.qty = 0 \/ (prev.qty > 0) = (signed > 0)
             cost == IF adds THEN RAdd(prev.cost, RMul(price, RInt(signed)))
                     ELSE IF IAbs(signed) <= IAbs(prev.qty)
                          THEN RMul(prev.cost, Rat(qty, prev.qty))
                          ELSE RMul(price, RInt(qty))
         IN  [cash |-> RAdd(prev.cash, flow), qty |-> qty, cost |-> cost]

\* realized PnL of the cash-flow ledger: the cash balance plus the open
\* quantity carried at its cost
CashRealized(fs) == LET l == CashLedger(fs) IN RAdd(l.cash, l.cost)

\* C4: for any sequence of fills on one pair the sum of the realized absolute
\* PnL of the emitted Results equals the realized PnL of a brute-force
\* cash-flow ledger over the same fills; for a sequence that ends flat that is
\* total sell proceeds minus total buy cost.
C4_RealizedEqualsCashFlow ==
    \A pair \in Pairs :
        LET fs == FillsOf(fills, pair)
            l == CashLedger(fs)
        IN  /\ SumProfitValue(emitted[pair]) = CashRealized(fs)
            /\ (l.qty = 0) => SumProfitValue(emitted[pair]) = l.cash

(***************************************************************************)
(* Claims about the priority queue (checked under SpecQueue).              *)
(***************************************************************************)
RECURSIVE Count(_, _)
Count(seq, x) ==
    IF seq = <<>> THEN 0
    ELSE (IF Head(seq) = x THEN 1 ELSE 0) + Count(Tail(seq), x)

\* C5: Pop removes exactly the item it returns: the queue holds the multiset
\* of the pushed items minus the popped ones (nothing lost, nothing returned
\* twice), and Pop on an empty queue returns the empty sentinel and changes
\* nothing.
C5_QueueHoldsPushedMinusPopped ==
    /\ length = Len(data)
    /\ \A x \in QueueCandles :
          Count(data, x) = Count(pushed, x) - Count(popped, x)
    /\ (lastPop.called /\ lastPop.before = <<>>) =>
          (lastPop.item = Nil /\ data = <<>>)

\* C6: successive pops with no push in between return items in
\* non-decreasing comparator order, and each pop returns a minimum of the
\* items held at that moment.
C6_PopsNonDecreasing ==
    /\ \A i \in 1..Len(sincePush) : \A j \in 1..Len(sincePush) :
          (i < j) => ~Less(sincePush[j], sincePush[i])
    /\ (lastPop.called /\ lastPop.before # <<>>) =>
          /\ lastPop.item # Nil
          /\ \A k \in 1..Len(lastPop.before) : ~Less(lastPop.before[k], lastPop.item)

\* three pops in a row from a queue of four items in which the root has two
\* children: the second pop returned a strictly larger item than the first
C6_Witness ==
    /\ Len(pushed) = 4
    /\ Len(sincePush) = 3
    /\ Less(sincePush[1], sincePush[2])


(***************************************************************************)
(* Matching claims, checked under SpecMatching.                            *)
(***************************************************************************)
SameGroup(a, b) ==
    a.GroupID # NilPtr /\ a.GroupID = b.GroupID /\ a.ExchangeID # b.ExchangeID

\* the last step was a candle, and this is the candle
CandleStep == lastStep.op = "candle"
StepCandle == candles[Len(candles)]

\* order i was new before the last step and is filled after it
FilledInStep(i) ==
    /\ i \in 1..Len(lastStep.before)
    /\ lastStep.before[i].Status = OrderStatusTypeNew
    /\ orders[i].Status = OrderStatusTypeFilled

\* C8: of the two legs of an OCO group at most one is ever filled, and once a
\* candle step has filled one leg the other leg is canceled, for sell-side
\* and buy-side groups alike.
C8_OneLegFillsOtherCanceled ==
    /\ \A i, j \in 1..Len(orders) :
          SameGroup(orders[i], orders[j])
             => ~(orders[i].Status = OrderStatusTypeFilled
                  /\ orders[j].Status = OrderStatusTypeFilled)
    /\ CandleStep =>
          \A i, j \in 1..Len(orders) :
             FilledInStep(i) /\ SameGroup(orders[i], orders[j])
                => orders[j].Status = OrderStatusTypeCanceled

\* a sell stop or stop-limit order of the candle's pair that is still new
RestingSellStop(o, candle) ==
    /\ o.Side = SideTypeSell
    /\ o.Type \in {OrderTypeStopLoss, OrderTypeStopLossLimit}
    /\ o.Status = OrderStatusTypeNew
    /\ o.Pair = candle.Pair

\* order o was executed on the candle at price S: the volume of the pair and
\* the free quote balance both grew by S times the quantity
ExecutedAt(o, candle, S) ==
    \E k \in 1..Len(execs) :
       /\ execs[k].ExchangeID = o.ExchangeID
       /\ execs[k].Time = candle.Time
       /\ execs[k].Price = S
       /\ execs[k].Volume = RInt(S * o.Quantity)
       /\ execs[k].QuoteFree = RInt(S * o.Quantity)

\* the OCO sibling of order i filled in the last step
SiblingFilledInStep(i) ==
    \E j \in 1..Len(lastStep.before) :
       SameGroup(lastStep.before[i], lastStep.before[j]) /\ FilledInStep(j)

\* C10 as stated: a sell stop with stop price S that is new when a candle of
\* its pair arrives fills on that candle if and only if low <= S, and then
\* it is executed at exactly S.
C10_SellStopFillsIffLowReachesStop ==
    CandleStep =>
       \A i \in 1..Len(lastStep.before) :
          RestingSellStop(lastStep.before[i], StepCandle) =>
             /\ orders[i].Status = OrderStatusTypeFilled
                   <=> StepCandle.Low <= orders[i].Stop
             /\ orders[i].Status = OrderStatusTypeFilled
                   => ExecutedAt(orders[i], StepCandle, orders[i].Stop)

\* C10 amended: a sell stop with stop price S that is new when a candle of
\* its pair arrives fills on that candle if and only if low <= S and its OCO
\* sibling has not filled in the same candle step; when it fills it is
\* executed at exactly S, and when the sibling filled it is canceled.
C10_SellStopFillsUnlessSiblingFilled ==
    CandleStep =>
       \A i \in 1..Len(lastStep.before) :
          RestingSellStop(lastStep.before[i], StepCandle) =>
             /\ orders[i].Status = OrderStatusTypeFilled
                   <=> (StepCandle.Low <= orders[i].Stop /\ ~SiblingFilledInStep(i))
             /\ orders[i].Status = OrderStatusTypeFilled
                   => ExecutedAt(orders[i], StepCandle, orders[i].Stop)
             /\ SiblingFilledInStep(i)
                   => orders[i].Status = OrderStatusTypeCanceled

\* C10 witness: a candle step in which the stop leg of a sell OCO, with a
\* stop price different from its limit price, filled
C10_Witness ==
    /\ CandleStep
    /\ \E i \in 1..Len(lastStep.before) :
          /\ RestingSellStop(lastStep.before[i], StepCandle)
          /\ orders[i].Stop # orders[i].Price
          /\ StepCandle.Low <= orders[i].Stop
          /\ orders[i].Status = OrderStatusTypeFilled


(***************************************************************************)
(* Order status claim, checked under SpecController.                       *)
(***************************************************************************)
\* the transitions of an order's status
AllowedTransition(a, b) ==
    \/ a = b
    \/ a = OrderStatusTypeNew
       /\ b \in {OrderStatusTypePartiallyFilled, OrderStatusTypeFilled,
                 OrderStatusTypeCanceled, OrderStatusTypePendingCancel,
                 OrderStatusTypeRejected, OrderStatusTypeExpired}
    \/ a = OrderStatusTypePartiallyFilled
       /\ b \in {OrderStatusTypeFilled, OrderStatusTypeCanceled}
    \/ a = OrderStatusTypePendingCancel /\ b = OrderStatusTypeCanceled

\* C9: in every step, the status of every order in the wallet's order book
\* and of every persisted order either stays or moves along an allowed
\* transition; a filled, canceled, rejected or expired order keeps its status.
C9_StatusTransitionsAllowed ==
    [][/\ \A i \in 1..Len(orders) :
             AllowedTransition(orders[i].Status, orders'[i].Status)
       /\ \A i \in 1..Len(storage) :
             AllowedTransition(storage[i].Status, storage'[i].Status)]_vars

(***************************************************************************)
(* Backtest claim, checked under SpecBacktest.                             *)
(***************************************************************************)
\* C7: the candles processed in backtest mode are the delivered candles in
\* sorted order: processing starts after every feed is loaded, the processed
\* candles never decrease in (time, update time, pair), none is processed
\* twice, and when the queue is drained every delivered candle was processed.
C7_BacktestProcessesSortedFeed ==
    /\ processed # <<>> => \A p \in Pairs : feeds[p] = <<>>
    /\ \A i \in 1..Len(processed) : \A j \in 1..Len(processed) :
          (i < j) => /\ ~Less(processed[j], processed[i])
                     /\ processed[i] # processed[j]
    /\ (processed # <<>> /\ length = 0) =>
          \A k \in 1..Len(pushed) : Count(processed, pushed[k]) = 1


(***************************************************************************)
(* Fund admission and buy-limit claims, checked under SpecMatching.        *)
(***************************************************************************)
\* a buy limit (or limit-maker) order of the candle's pair that is still new
RestingBuyLimit(o, candle) ==
    /\ o.Side = SideTypeBuy
    /\ o.Type \in {OrderTypeLimit, OrderTypeLimitMaker}
    /\ o.Status = OrderStatusTypeNew
    /\ o.Pair = candle.Pair

\* some order was filled in the last step
AnyFilledInStep == \E j \in 1..Len(lastStep.before) : FilledInStep(j)

\* C11: a buy limit order at price P that is new when a candle with
\* close > P arrives is unchanged after the candle, nothing was executed for
\* it, and when no other order filled on that candle no balance and no
\* volume changed.
C11_BuyLimitNeverFillsAboveClose ==
    CandleStep =>
       \A i \in 1..Len(lastStep.before) :
          (RestingBuyLimit(lastStep.before[i], StepCandle)
           /\ StepCandle.Close > lastStep.before[i].Price) =>
             /\ orders[i] = lastStep.before[i]
             /\ \A k \in 1..Len(execs) :
                   ~(execs[k].ExchangeID = orders[i].ExchangeID
                     /\ execs[k].Time = StepCandle.Time)
             /\ ~AnyFilledInStep =>
                   /\ assets = lastStep.wallet.assets
                   /\ volume = lastStep.wallet.volume

\* C11 witness: a candle closed above the price of a resting buy limit order
\* while another order of the book filled on it
C11_Witness ==
    /\ CandleStep
    /\ AnyFilledInStep
    /\ \E i \in 1..Len(lastStep.before) :
          /\ RestingBuyLimit(lastStep.before[i], StepCandle)
          /\ StepCandle.Close > lastStep.before[i].Price
          /\ orders[i].Status = OrderStatusTypeNew


\* the last step was an order creation
CreationStep == lastStep.op \in {"limit", "oco", "stop", "market"}

\* a balance of an asset map, an asset the wallet does not hold reading as 0
FreeOf(as, a) == IF as[a] = Nil THEN RZero ELSE as[a].Free
LockOf(as, a) == IF as[a] = Nil THEN RZero ELSE as[a].Lock

\* the coverage of a request in wallet w is insufficient.  Sell: quote free
\* plus the positive base free valued at the order price is below
\* qty * price.  Buy: quote free plus the liquidation value of a short is
\* below the net quantity to buy times the price.
Insufficient(w, req) ==
    LET sq == SplitAssetQuote(req.pair)
        base == FreeOf(w.assets, sq.asset)
        quote == FreeOf(w.assets, sq.quote)
        price == RInt(req.price)
        qty == RInt(req.size)
        short == RAbs(RMin(base, RZero))
        liquidation == RSub(RMul(RMul(RInt(2), short), w.avgShortPrice[req.pair]),
                            RMul(short, price))
    IN  IF req.side = SideTypeSell
        THEN RLt(RAdd(quote, RMul(RMax(base, RZero), price)), RMul(qty, price))
        ELSE RLt(RAdd(quote, liquidation), RMul(RSub(qty, short), price))

RestingSellCreated ==
    /\ lastStep.op \in {"limit", "oco", "stop"}
    /\ lastStep.req.side = SideTypeSell
    /\ ~lastStep.err

\* C13: creating a resting sell order for q at P with free base b >= 0 moves
\* min(b, q) base units and (q - min(b, q)) * P quote units from free to
\* locked and nothing else: every other balance, the volume and the average
\* prices are unchanged, nothing is executed, and the created orders are
\* appended to the book as new.
C13_SellReservesBaseThenQuote ==
    LET w == lastStep.wallet
        sq == SplitAssetQuote(lastStep.req.pair)
        b == FreeOf(w.assets, sq.asset)
        q == RInt(lastStep.req.size)
        P == RInt(lastStep.req.price)
        m == RMin(b, q)
        short == RMul(RSub(q, m), P)
    IN  (RestingSellCreated /\ RLe(RZero, b)) =>
           /\ FreeOf(assets, sq.asset) = RSub(b, m)
           /\ LockOf(assets, sq.asset) = RAdd(LockOf(w.assets, sq.asset), m)
           /\ FreeOf(assets, sq.quote) = RSub(FreeOf(w.assets, sq.quote), short)
           /\ LockOf(assets, sq.quote) = RAdd(LockOf(w.assets, sq.quote), short)
           /\ \A a \in Assets \ {sq.asset, sq.quote} :
                 /\ FreeOf(assets, a) = FreeOf(w.assets, a)
                 /\ LockOf(assets, a) = LockOf(w.assets, a)
           /\ volume = w.volume
           /\ avgShortPrice = w.avgShortPrice
           /\ avgLongPrice = w.avgLongPrice
           /\ execs = w.execs
           /\ lastStep.created # <<>>
           /\ orders = lastStep.before \o lastStep.created
           /\ \A k \in 1..Len(lastStep.created) :
                 /\ lastStep.created[k].Status = OrderStatusTypeNew
                 /\ lastStep.created[k].Side = SideTypeSell

\* C13 witness: a sell of 5 was created with a free base balance of 3, so
\* that base units and quote units were both reserved
C13_Witness ==
    /\ RestingSellCreated
    /\ FreeOf(lastStep.wallet.assets, "BTC") = RInt(3)
    /\ FreeOf(assets, "BTC") = RZero
    /\ RLt(FreeOf(assets, "USDT"), FreeOf(lastStep.wallet.assets, "USDT"))


(***************************************************************************)
(* Error handling claims of the controller, checked under SpecController.  *)
(***************************************************************************)
CreateOps == {"limit", "oco", "stop", "market"}

\* the last controller call was a creation the Broker accepted and the
\* Storage refused
StorageRefusedCreation ==
    /\ ctl.op \in CreateOps
    /\ ~ctl.brokerErr
    /\ ctl.storageErr

\* the orders a call returned are the orders the Broker accepted, by
\* exchange id, status and quantity
ReturnsAccepted(ret, accepted) ==
    /\ Len(ret) = Len(accepted)
    /\ \A k \in 1..Len(accepted) :
          /\ ret[k].ExchangeID = accepted[k].ExchangeID
          /\ ret[k].Status = accepted[k].Status
          /\ ret[k].Quantity = accepted[k].Quantity

\* C14: when the Broker accepted a creation and persisting failed, the error
\* is reported to the notifier and the call returns the accepted orders.
C14_AcceptedOrderReturnedOnStorageError ==
    StorageRefusedCreation =>
       /\ ctl.notified = <<ErrStorage>>
       /\ ReturnsAccepted(ctl.ret, lastStep.created)

\* the step is a creation call that the Broker refused
BrokerRefusedCreationStep ==
    /\ calls' = calls + 1
    /\ ctl'.op \in CreateOps
    /\ ctl'.brokerErr

PendingStatuses ==
    {OrderStatusTypeNew, OrderStatusTypePartiallyFilled, OrderStatusTypePendingCancel}

\* the step is a reconciliation pass that did or failed something
UpdatePassStep ==
    /\ calls' = calls
    /\ candles' = candles
    /\ ctl'.op = "update"
    /\ <<ctl, faults, storage>>' # <<ctl, faults, storage>>

\* the persisted order i is awaiting reconciliation and the Broker's copy
\* has another status
OutOfDate(i) ==
    /\ storage[i].Status \in PendingStatuses
    /\ WalletOrder(PW, storage[i].ExchangeID) # Nil
    /\ WalletOrder(PW, storage[i].ExchangeID).Status # storage[i].Status

\* C16: in a pass where the fetch of one order fails, that order's persisted
\* copy is unchanged and still awaits reconciliation, no trade of it reaches
\* the ledger, and every other out-of-date order of the pass gets the
\* Broker's status; a pass without failure gives every out-of-date order,
\* one whose fetch failed before included, the Broker's status.
C16_FetchFailureSkipsOnlyThatOrder ==
    [][UpdatePassStep =>
          /\ ctl'.failed = "broker" =>
                \A i \in 1..Len(storage) :
                   IF storage[i].ExchangeID = ctl'.failedID
                   THEN /\ storage'[i] = storage[i]
                        /\ storage'[i].Status \in PendingStatuses
                        /\ \A k \in Len(fills) + 1..Len(fills') :
                              fills'[k].ExchangeID # ctl'.failedID
                   ELSE OutOfDate(i) =>
                           storage'[i].Status =
                              WalletOrder(PW, storage[i].ExchangeID).Status
          /\ ctl'.failed = "none" =>
                \A i \in 1..Len(storage) :
                   OutOfDate(i) =>
                      storage'[i].Status =
                         WalletOrder(PW, storage[i].ExchangeID).Status]_vars

\* C16 witness: a pass in which the fetch of an out-of-date order failed
\* while another order was brought up to date
C16_Witness ==
    /\ ctl.op = "update"
    /\ ctl.failed = "broker"
    /\ ctl.published # <<>>
    /\ \E i \in 1..Len(storage) :
          /\ storage[i].ExchangeID = ctl.failedID
          /\ OutOfDate(i)

\* C19: whenever a Broker or Storage call of a controller operation failed,
\* the operation reported an error to the notifier.
C19_EveryErrorNotified ==
    (ctl.op # "none" /\ (ctl.brokerErr \/ ctl.storageErr)) => ctl.notified # <<>>

LoopsTerminated ==
    /\ loop # "select"
    /\ \A p \in Pairs : dispatch[p] # "running"

\* C18: once the context handed to Run is cancelled, every candle dispatch
\* goroutine and the reconciliation goroutine eventually terminate.
C18_CancelTerminatesLoops == ctxDone ~> LoopsTerminated

(***************************************************************************)
(* Concurrent queue claim, checked under SpecStream.                       *)
(***************************************************************************)
\* no item of the first n of d compares less than its parent
HeapOrdered(d, n) ==
    \A i \in 2..n : ~Less(d[i], d[i \div 2])

\* C20: under any interleaving of Push, Pop, Peek, Len and PopLock each call
\* takes effect as a whole and leaves a heap: no stored item compares less
\* than its parent, length is the number of stored items, and the callback
\* of every PopLock call that has returned is registered.
C20_ConcurrentCallsAtomic ==
    /\ length = Len(data)
    /\ HeapOrdered(data, length)
    /\ \A c \in Callers :
          registering[c].at = "returned" => Callbacks(notifyCallbacks, c) = 1
(***************************************************************************)
(* Streaming-pop claims, checked under SpecStream and SpecConsumerFair.    *)
(***************************************************************************)
\* C21: a channel of the streaming pop delivers the items in the order in
\* which they were popped from the heap: an item popped earlier is never
\* received after an item popped later.
C21_ReceivedInPopOrder ==
    \A c \in Callers :
        \A i \in 1..Len(received[c]) : \A j \in 1..Len(received[c]) :
            (i < j) => received[c][i].n < received[c][j].n

\* number of times the consumer has received item x
Received(c, x) ==
    Cardinality({i \in 1..Len(received[c]) : received[c][i].item = x})

\* C22: every item pushed is eventually delivered on the consumer's channel
\* as long as the consumer keeps receiving, whether it was pushed before or
\* after the streaming pop was registered.
C22_EveryPushDelivered ==
    \A x \in StreamCandles : \A k \in 1..MaxStreamPush :
        (Count(pushed, x) >= k) ~> (Received(Consumer, x) >= k)
(***************************************************************************)
(* Strategy and mode claims, checked under SpecPipeline.                   *)
(***************************************************************************)
NonDecreasing(seq) ==
    \A i \in 1..Len(seq) : \A j \in 1..Len(seq) : (i < j) => seq[i] <= seq[j]

\* the last candle of the live bot was older than the last row of its
\* pair's dataframe
LateCandleStep ==
    /\ bots["live"].step.op = "candle"
    /\ Len(bots["live"].step.before.Time) > 0
    /\ bots["live"].step.candle.Time <
          bots["live"].step.before.Time[Len(bots["live"].step.before.Time)]

\* C23: a candle older than the last bar accepted into the dataframe of its
\* pair is dropped: the dataframe is unchanged and no strategy handler is
\* invoked; so the timestamps of every dataframe are non-decreasing after
\* any sequence of complete and partial candles.
C23_LateCandleDropped ==
    /\ LateCandleStep =>
          /\ bots["live"].dataframe[bots["live"].step.candle.Pair] =
                bots["live"].step.before
          /\ bots["live"].step.handlers = <<>>
    /\ \A p \in Pairs : NonDecreasing(bots["live"].dataframe[p].Time)

\* C24: the backtest drain and the live path hand a candle to the same
\* consumers in the same order, so the same candle sequence leaves the same
\* state in both modes.
C24_SameConsumersInBothModes ==
    bots["backtest"] = bots["live"]

(***************************************************************************)
(* Data feed claims, checked under SpecDataFeed and SpecDataFeedFair.      *)
(***************************************************************************)
\* a subscription takes a candle unless it is completed-only and the candle
\* is incomplete
Eligible(sub, candle) == ~sub.onCandleClose \/ candle.Complete

\* the deliveries owed for the candles sent so far: candle by candle in
\* arrival order, and for each candle the eligible subscriptions in
\* registration order
RECURSIVE ExpectedLog(_, _)
ExpectedLog(subs, sent) ==
    IF sent = <<>> THEN <<>>
    ELSE LET n == Len(sent)
             eligible == SelectSeq([i \in 1..Len(subs) |-> i],
                                   LAMBDA i : Eligible(subs[i], sent[n]))
         IN  ExpectedLog(subs, SubSeq(sent, 1, n - 1))
                 \o [j \in 1..Len(eligible) |-> [sub |-> eligible[j], n |-> n]]

\* C25: a completed-only subscriber never receives an incomplete candle, and
\* every other candle of a stream is delivered exactly once to every
\* subscriber of its key, candles in arrival order and subscribers in
\* registration order.
C25_DeliveredOncePerSubscription ==
    \A p \in Pairs :
        /\ datafeed.dlog[p] = ExpectedLog(datafeed.subs[p], datafeed.sent[p])
        /\ \A j \in 1..Len(datafeed.dlog[p]) :
              datafeed.subs[p][datafeed.dlog[p][j].sub].onCandleClose =>
                  datafeed.sent[p][datafeed.dlog[p][j].n].Complete

\* a key with a completed-only subscription and an ordinary one after it has
\* delivered an incomplete and a complete candle
C25_Witness ==
    \E p \in Pairs :
        /\ Len(datafeed.subs[p]) = 2
        /\ datafeed.subs[p][1].onCandleClose
        /\ ~datafeed.subs[p][2].onCandleClose
        /\ Len(datafeed.sent[p]) = 2
        /\ ~datafeed.sent[p][1].Complete
        /\ datafeed.sent[p][2].Complete
        /\ Len(datafeed.dlog[p]) = 3

\* every feed has delivered its whole backlog and its goroutine has returned
BacklogDelivered ==
    \A p \in FeedKeys(datafeed) :
        /\ datafeed.backlog[p] = <<>>
        /\ datafeed.dlog[p] = ExpectedLog(datafeed.subs[p], datafeed.sent[p])
        /\ datafeed.loops[p] = "exited"

AllFeedsClosed ==
    \A p \in FeedKeys(datafeed) : datafeed.feed[p] = "closed"

\* C26: Start(true) does not return before every candle of every stream's
\* backlog has been delivered, and it does return once the feeder has closed
\* every stream, transport errors in between notwithstanding; Start(false)
\* returns without waiting.
C26_StartWaitsForBacklog ==
    /\ []((datafeed.start = "returned" /\ datafeed.loadSync) => BacklogDelivered)
    /\ []((datafeed.start # "none" /\ ~datafeed.loadSync) => datafeed.start = "returned")
    /\ (datafeed.start = "waiting" /\ AllFeedsClosed) ~> (datafeed.start = "returned")

\* Start(true) has returned after two feeds delivered candles and a
\* transport error was logged
C26_Witness ==
    /\ datafeed.start = "returned"
    /\ datafeed.loadSync
    /\ datafeed.logged > 0
    /\ \A p \in Pairs : Len(datafeed.sent[p]) >= 1

(***************************************************************************)
(* Claims about the CSV feed (checked under SpecCSV).                      *)
(***************************************************************************)
\* the indexes of the source bars that start a target period
PeriodStarts(source) ==
    {i \in 1..Len(source) : isFistCandlePeriod(source[i].Time)}

\* the indexes of the source bars whose successor timestamp starts the next
\* period, from the first bar that starts a period on
PeriodEnds(source) ==
    {i \in 1..Len(source) :
        /\ isLastCandlePeriod(source[i].Time)
        /\ \E s \in PeriodStarts(source) : s <= i}

\* the index of the k-th of these bars
PeriodEnd(source, k) ==
    CHOOSE b \in PeriodEnds(source) :
        Cardinality({e \in PeriodEnds(source) : e <= b}) = k

\* the index of the first constituent of the bar completed by source bar b:
\* the bar after the one that completed the bar before it, or the first bar
\* that starts a period
PeriodBegin(source, b) ==
    LET before == {e \in PeriodEnds(source) : e < b}
    IN  IF before = {}
        THEN CHOOSE s \in PeriodStarts(source) : \A o \in PeriodStarts(source) : s <= o
        ELSE 1 + CHOOSE e \in before : \A o \in before : o <= e

RECURSIVE VolumeSum(_, _, _)
VolumeSum(source, a, b) ==
    IF a > b THEN 0 ELSE source[a].Volume + VolumeSum(source, a + 1, b)

CompleteBars(series) == SelectSeq(series, LAMBDA c : c.Complete)

\* C27: every completed bar of a resampled series has the start time and the
\* open of its first constituent, the highest high and the lowest low of its
\* constituents and the sum of their volumes, the constituents being the
\* source bars from a period boundary up to the bar whose successor timestamp
\* starts the next period; there is one completed bar for each such bar
C27_CompletedBarAggregates ==
    csv.state = "ready" =>
        LET source == csv.source
            done == CompleteBars(csv.resampled)
        IN  /\ Len(done) = Cardinality(PeriodEnds(source))
            /\ \A k \in 1..Len(done) :
                  LET b == PeriodEnd(source, k)
                      a == PeriodBegin(source, b)
                  IN  /\ done[k].Time = source[a].Time
                      /\ done[k].Open = source[a].Open
                      /\ \E i \in a..b : done[k].High = source[i].High
                      /\ \A i \in a..b : done[k].High >= source[i].High
                      /\ \E i \in a..b : done[k].Low = source[i].Low
                      /\ \A i \in a..b : done[k].Low <= source[i].Low
                      /\ done[k].Volume = VolumeSum(source, a, b)

\* C27 witness: a completed bar of three source bars, a rising, a falling
\* and a rising one, so its high and low are those of the middle bar and its
\* volume is the sum of the three
C27_Witness ==
    /\ csv.state = "ready"
    /\ \E j \in 1..Len(csv.resampled) :
          /\ csv.resampled[j].Complete
          /\ csv.resampled[j].Open = 100
          /\ csv.resampled[j].Close = 103
          /\ csv.resampled[j].High = 108
          /\ csv.resampled[j].Low = 96
          /\ csv.resampled[j].Volume = 4

\* C28: after resampling the target series is empty or ends with a complete
\* bar, and resampling has not failed
C28_NoTrailingIncompleteBar ==
    csv.state # "read" =>
        /\ csv.state = "ready"
        /\ \/ csv.resampled = <<>>
           \/ csv.resampled[Len(csv.resampled)].Complete

RECURSIVE Flatten(_)
Flatten(seqs) == IF seqs = <<>> THEN <<>> ELSE Head(seqs) \o Flatten(Tail(seqs))

\* C29: a limit query returns the first N bars of the remaining series and
\* removes exactly those, or fails and leaves the series unchanged when fewer
\* than N remain; the bars returned by the limit queries followed by the bars
\* sent by the subscription are the bars of the series, each once and in
\* order, and all of them once the subscription's channels are closed
C29_QueriesThenSubscriptionDeliverSeries ==
    csv.state = "ready" =>
        /\ csv.lastLimit.called /\ csv.sub = "none" =>
              IF Len(csv.lastLimit.before) < csv.lastLimit.limit
              THEN csv.lastLimit.err /\ csv.series = csv.lastLimit.before
              ELSE /\ ~csv.lastLimit.err
                   /\ csv.lastLimit.result = SubSeq(csv.lastLimit.before, 1, csv.lastLimit.limit)
                   /\ csv.lastLimit.result \o csv.series = csv.lastLimit.before
        /\ csv.sub = "none" => Flatten(csv.taken) \o csv.series = csv.resampled
        /\ csv.sub # "none" =>
              Flatten(csv.taken) \o csv.streamed \o csv.toSend = csv.resampled
        /\ csv.sub = "closed" => Flatten(csv.taken) \o csv.streamed = csv.resampled

\* C29 witness: a query took bars, a later one failed, and the subscription
\* sent the remaining bars and closed its channels
C29_Witness ==
    /\ csv.state = "ready"
    /\ csv.sub = "closed"
    /\ csv.taken # <<>>
    /\ csv.lastLimit.called /\ csv.lastLimit.err
    /\ csv.streamed # <<>>

(***************************************************************************)
(* The number of Results per fill (checked under SpecLedger).              *)
(***************************************************************************)
\* C30: a fill processed by the ledger emits exactly one Result when it is on
\* the side opposite to the pair's position (a flip included) and none when
\* it seeds a flat pair or adds to a position on its own side; no other
\* pair's Results change
C30_OneResultPerOppositeFill ==
    [][fills' # fills =>
          LET o == fills'[Len(fills')]
              opposite == position[o.Pair] # Nil /\ position[o.Pair].Side # o.Side
          IN  \A p \in Pairs :
                 Len(emitted'[p]) =
                    Len(emitted[p]) + (IF p = o.Pair /\ opposite THEN 1 ELSE 0)]_vars

\* C30 witness: three fills of one pair, the third a flip of the position
\* that the first seeded and the second added to, and one Result in all
C30_Witness ==
    /\ Len(fills) = 3
    /\ \A i \in 1..3 : fills[i].Pair = fills[1].Pair
    /\ fills[2].Side = fills[1].Side
    /\ fills[3].Side # fills[1].Side
    /\ fills[3].Quantity > fills[1].Quantity + fills[2].Quantity
    /\ Len(emitted[fills[1].Pair]) = 1
    /\ position[fills[1].Pair] # Nil
    /\ position[fills[1].Pair].Side = fills[3].Side

(***************************************************************************)
(* Average price and net quantity of the ledger (checked under SpecLedger).*)
(***************************************************************************)
\* the last processTrade call was a fill on the side of the position
SameSideFill ==
    /\ last.applied
    /\ last.before # Nil
    /\ last.before.Side = last.order.Side

\* C31: a fill o on the side of position p sets the quantity to p.qty + o.qty
\* and the average price to the quantity-weighted mean, avg' * (p.qty + o.qty)
\* = p.avg * p.qty + o.price * o.qty, and leaves side and opened-at as they
\* were; a fill on the other side that leaves a position keeps the average
\* price, except that a flip sets it to o.price (o.price is the execution
\* price: the stop price for stop orders)
C31_SameSideWeightedMean ==
    /\ SameSideFill =>
          LET p == last.before
              o == last.order
              now == position[o.Pair]
          IN  /\ now # Nil
              /\ now.Quantity = p.Quantity + o.Quantity
              /\ RMul(now.AvgPrice, RInt(p.Quantity + o.Quantity)) =
                    RAdd(RMul(p.AvgPrice, RInt(p.Quantity)),
                         RMul(RInt(UpdatePrice(o)), RInt(o.Quantity)))
              /\ now.Side = p.Side
              /\ now.CreatedAt = p.CreatedAt
    /\ OppositeFill /\ position[last.order.Pair] # Nil =>
          position[last.order.Pair].AvgPrice =
             IF last.order.Quantity > last.before.Quantity
             THEN RInt(UpdatePrice(last.order))
             ELSE last.before.AvgPrice

\* C31 witness: a same-side fill at another price and with another quantity
\* than the position's, at a later time
C31_Witness ==
    /\ SameSideFill
    /\ last.before.AvgPrice # RInt(UpdatePrice(last.order))
    /\ last.before.Quantity # last.order.Quantity
    /\ last.before.CreatedAt # last.order.CreatedAt

\* the net signed quantity of the first n fills on a pair: buys minus sells
RECURSIVE NetFilled(_, _)
NetFilled(pair, n) ==
    IF n = 0 THEN 0
    ELSE NetFilled(pair, n - 1) +
         (IF fills[n].Pair # pair THEN 0
          ELSE IF fills[n].Side = SideTypeBuy THEN fills[n].Quantity
          ELSE -fills[n].Quantity)

Declines(ev) ==
    {d \in (1..Len(ev)) \X (1..Len(ev)) :
        d[1] < d[2] /\ RLt(ev[d[2]].Value, ev[d[1]].Value)}

\* the decline from sample d[1] to sample d[2] as a fraction of the former
DeclineOf(ev, d) ==
    RDiv(RSub(ev[d[2]].Value, ev[d[1]].Value), ev[d[1]].Value)

\* C33: MaxDrawdown over the recorded equity series is the largest decline
\* from an earlier to a later sample, as a non-positive fraction of the
\* earlier one, with the times of the two samples; for a series with one
\* sample or without a decline it is 0
C33_MaxDrawdownIsLargestDecline ==
    LET ev == equityValues
        r == MaxDrawdown(ev)
    IN  IF Declines(ev) = {}
        THEN r.value = RZero
        ELSE \E d \in Declines(ev) :
                /\ \A e \in Declines(ev) : RLe(DeclineOf(ev, d), DeclineOf(ev, e))
                /\ r.value = DeclineOf(ev, d)
                /\ r.start = ev[d[1]].Time
                /\ r.end = ev[d[2]].Time

(***************************************************************************)
(* Fills reaching the ledger (checked under SpecController).               *)
(***************************************************************************)
\* the number of times the ledger has applied a fill of the order with
\* this exchange id
AppliedCount(id) == Cardinality({k \in 1..Len(fills) : fills[k].ExchangeID = id})

\* the matching engine has filled the order
FilledByBroker(o) ==
    \/ o.Status = OrderStatusTypeFilled
    \/ \E k \in 1..Len(execs) : execs[k].ExchangeID = o.ExchangeID

\* a later reconciliation pass will still fetch the order
StillReconciled(o) ==
    \E k \in 1..Len(Pending) : Pending[k].ExchangeID = o.ExchangeID

\* C34: every fill of an order is applied to the ledger and to the traded
\* volume exactly once: never twice, for a market order when its creation
\* has returned, and for a resting order no later than the point from which
\* no reconciliation pass lists the order any more; nothing is applied for
\* an order that was not filled
C34_FillAppliedExactlyOnce ==
    \A i \in 1..Len(orders) :
        LET o == orders[i]
            n == AppliedCount(o.ExchangeID)
        IN  /\ n <= 1
            /\ n = 1 => FilledByBroker(o)
            /\ o.Type = OrderTypeMarket /\ o.Status = OrderStatusTypeFilled => n = 1
            /\ FilledByBroker(o) /\ ~StillReconciled(o) => n = 1

(***************************************************************************)
(* Locked balances of the matching engine (checked under SpecMatching).    *)
(***************************************************************************)
\* an order of the book is resting
SomeOrderResting == \E i \in 1..Len(orders) : orders[i].Status = OrderStatusTypeNew

\* C35: the locked balance of every asset is the sum of the reservations of
\* the resting (new) orders; stated by its two consequences that need no
\* bookkeeping of the reservations: no locked balance is negative, and every
\* locked balance is zero when no order is resting
C35_LockedIsReservedByRestingOrders ==
    \A a \in Assets :
        /\ RLe(RZero, LockOf(assets, a))
        /\ ~SomeOrderResting => LockOf(assets, a) = RZero

(***************************************************************************)
(* Determinism of the backtest drain (checked under SpecBacktest).         *)
(***************************************************************************)
\* the queue after the pushes of items, in this order, into the queue <<d, len>>
RECURSIVE PushAll(_, _, _)
PushAll(d, len, items) ==
    IF items = <<>> THEN [data |-> d, length |-> len]
    ELSE LET r == Push(d, len, Head(items))
         IN  PushAll(r.data, r.length, Tail(items))

\* the items that the drain of backtestCandles pops from the queue <<d, len>>
RECURSIVE DrainAll(_, _)
DrainAll(d, len) ==
    IF len = 0 THEN <<>>
    ELSE LET r == Pop(d, len)
         IN  <<r.item>> \o DrainAll(r.data, r.length)

\* the candles pushed so far for a pair, in the order of its feed
PushedOf(pair) == SelectSeq(pushed, LAMBDA c : c.Pair = pair)

\* the drain of the run in which the dispatch loop of BTCUSDT pushes all its
\* candles before the loop of ETHUSDT pushes its first
SequentialDrain ==
    LET q == PushAll(<<>>, 0, PushedOf("BTCUSDT") \o PushedOf("ETHUSDT"))
    IN  DrainAll(q.data, q.length)

\* C36: for given input series the sequence of candles processed by the
\* drain is the same for every interleaving of the dispatch loops' pushes:
\* once every feed is loaded, the candles processed so far followed by those
\* the drain will still pop are the sequence of the run with sequential loops
C36_DrainIndependentOfInterleaving ==
    (\A p \in Pairs : feeds[p] = <<>>) =>
        processed \o DrainAll(data, length) = SequentialDrain

(***************************************************************************)
(* Base balance after market orders (checked under SpecMarket).            *)
(***************************************************************************)
BaseTotal(as) == RAdd(FreeOf(as, "BTC"), LockOf(as, "BTC"))

\* C37: a successful market order changes the base balance (free + locked)
\* by its quantity, up for a buy and down for a sell, also when the sell
\* exceeds the held quantity and opens or enlarges a short; the balance is
\* therefore the initial one plus the net signed filled quantity
C37_BaseBalanceIsNetFilled ==
    [][(calls' = calls + 1 /\ lastStep'.op = "market" /\ ~lastStep'.err) =>
          BaseTotal(assets') =
             RAdd(BaseTotal(assets),
                  RInt(IF lastStep'.req.side = SideTypeBuy
                       THEN lastStep'.req.size ELSE -lastStep'.req.size))]_vars

(***************************************************************************)
(* Order feed claims (checked under SpecOrderFeedFair and SpecOrderFeed).  *)
(***************************************************************************)
\* C38: every reconciliation pass eventually completes and releases the
\* controller's lock, whatever the subscriber does with an event and
\* whenever the pair was subscribed
C38_PassCompletes ==
    orderfeed.pass.active ~> (~orderfeed.pass.active /\ orderfeed.mtx = "free")

\* C39: the subscriber receives the events of an order in the order of its
\* status changes, so never the creation event after the event of a later
\* update, and the creation events of two orders in the order of creation
C39_EventsInChangeOrder ==
    \A i, j \in 1..Len(orderfeed.delivered) :
        i < j =>
            LET first == orderfeed.delivered[i]
                later == orderfeed.delivered[j]
            IN  /\ ~(first[1] = later[1] /\ first[2] = EventFilled /\ later[2] = EventNew)
                /\ ~(first[2] = EventNew /\ later[2] = EventNew /\ first[1] > later[1])

(***************************************************************************)
(* Late candles at the matching engine (checked under SpecPipeline).       *)
(***************************************************************************)
\* C40: a candle older than the last one processed for its pair leaves the
\* matching engine as it was: the last-known candle of the pair, the order
\* book and the equity series are unchanged
C40_LateCandleIgnoredByEngine ==
    [][(candles' # candles
        /\ candles'[Len(candles')].Time <
              lastCandle[candles'[Len(candles')].Pair].Time) =>
          /\ lastCandle' = lastCandle
          /\ orders' = orders
          /\ equityValues' = equityValues]_vars

=============================================================================
